---- MODULE Spec2Model ----
(***************************************************************************)
(* A model of autocensus: the Query.run pipeline of query.py (variable,    *)
(* table and geometry fetch phases, each gathered by CensusAPI.gather_calls *)
(* of api.py, followed by assemble_dataframe) and the pure helpers of       *)
(* utilities.py that the pipeline uses.                                     *)
(***************************************************************************)
EXTENDS Integers, Sequences, FiniteSets, TLC

(***************************************************************************)
(* Program constants.                                                       *)
(***************************************************************************)
\* api.py: stop_after_attempt(5) on fetch_variable and fetch_table
MaxAttempts == 5
\* utilities.py: chunk_variables(variables, max_size=48)
DefaultMaxSize == 48
\* query.py: years_with_gazetteer_files = [year for year in self.years if year >= 2012]
GazetteerStartYear == 2012
\* query.py: years_with_shapefiles = [year for year in self.years if year >= 2013]
ShapefileStartYear == 2013

(***************************************************************************)
(* Bounds of the model.                                                     *)
(***************************************************************************)
\* the largest number of concurrent calls one phase of a modelled run makes
MaxCalls == 2
\* chunk_variables is explored on sequences up to this length ...
MaxLen == 5
\* ... and on max_size values up to this one
MaxSize == 4
\* get_tables is explored on queries with up to this many variables per prefix
MaxVars == 50

(***************************************************************************)
(* Variable codes are strings; they are modelled as tuples of characters so  *)
(* that the prefix before the first digit can be inspected.                 *)
(***************************************************************************)
Range(s) == {s[i] : i \in 1..Len(s)}

Digits == <<"0", "1", "2", "3", "4", "5", "6", "7", "8", "9">>

IsDigit(c) == \E i \in 1..Len(Digits) : Digits[i] = c

\* the code point order Python's sorted() uses on the characters that occur
Alphabet == Digits \o <<"A", "B", "C", "D", "P", "S", "X", "_">>

Position == [c \in Range(Alphabet) |-> CHOOSE i \in 1..Len(Alphabet) : Alphabet[i] = c]

Ord(c) == Position[c]

\* a two-digit variable code such as B01 or S07
VarCode(prefix, n) == prefix \o <<Digits[(n \div 10) + 1], Digits[(n % 10) + 1]>>

\* Python's < on strings, lexicographic by code point: at the first place
\* where they differ, a has ended or has the smaller character
StrLess(a, b) ==
    \E k \in 1..Len(b) :
        /\ \A j \in 1..(k - 1) : j <= Len(a) /\ a[j] = b[j]
        /\ (k > Len(a) \/ Ord(a[k]) < Ord(b[k]))

\* a function on 1..n as a tuple
Tuple(f) == SubSeq(f, 1, Len(f))

\* sorted(set(...)) of strings: the i-th item is the one with i - 1 smaller ones
SortedStrings(S) ==
    LET ranked == {<<Cardinality({y \in S : StrLess(y, x)}), x>> : x \in S}
    IN  Tuple([i \in 1..Cardinality(S) |-> (CHOOSE p \in ranked : p[1] = i - 1)[2]])

\* sorted(set(...)) of integers
SortedInts(S) ==
    Tuple([i \in 1..Cardinality(S) |->
        CHOOSE x \in S : Cardinality({y \in S : y < x}) = i - 1])

\* [Op(x) for x in s]
Map(Op(_), s) == Tuple([i \in 1..Len(s) |-> Op(s[i])])

\* [y for x in s for y in Op(x)]
RECURSIVE FlatMap(_, _)
FlatMap(Op(_), s) == IF s = <<>> THEN <<>> ELSE Op(Head(s)) \o FlatMap(Op, Tail(s))

\* the items of a sequence in order of first occurrence
RECURSIVE Unique(_)
Unique(s) ==
    IF s = <<>> THEN <<>>
    ELSE <<Head(s)>> \o Unique(SelectSeq(Tail(s), LAMBDA x : x # Head(s)))

(***************************************************************************)
(* utilities.py                                                             *)
(***************************************************************************)
\* a slice that also takes the element at index max_size
IsliceInclusive(s, max_size) ==
    IF max_size <= 0 THEN <<>>
    ELSE SubSeq(s, 1, IF Len(s) < max_size + 1 THEN Len(s) ELSE max_size + 1)

\* islice(iterator, max_size): the next max_size items, fewer at the end
Islice(s, max_size) ==
    IF max_size <= 0 THEN <<>>
    ELSE SubSeq(s, 1, IF Len(s) < max_size THEN Len(s) ELSE max_size)

\* chunk_variables: take slices until an empty one comes back
RECURSIVE chunk_variables(_, _)
chunk_variables(variables, max_size) ==
    LET chunk == Islice(variables, max_size)
    IN  IF chunk # <<>>
        THEN <<chunk>> \o chunk_variables(SubSeq(variables, Len(chunk) + 1, Len(variables)), max_size)
        ELSE <<>>

\* parse_table_name_from_variable: the table of a variable code, from the
\* characters before its first digit
TableMappings ==
    [code \in {<<"B">>, <<"C">>, <<"C", "P">>, <<"D", "P">>, <<"S">>} |->
        IF code = <<"C", "P">> THEN "cprofile"
        ELSE IF code = <<"D", "P">> THEN "profile"
        ELSE IF code = <<"S">> THEN "subject"
        ELSE "detail"]

parse_table_name_from_variable(variable) ==
    IF \A i \in 1..Len(variable) : ~IsDigit(variable[i])
    THEN "ValueError"
    ELSE LET end_of_table_code == CHOOSE i \in 1..Len(variable) :
                 /\ IsDigit(variable[i])
                 /\ \A j \in 1..(i - 1) : ~IsDigit(variable[j])
             table_code == SubSeq(variable, 1, end_of_table_code - 1)
         IN  IF table_code \in DOMAIN TableMappings
             THEN TableMappings[table_code]
             ELSE "InvalidVariableError"

(***************************************************************************)
(* geography.py                                                             *)
(***************************************************************************)
Geo(type, code) == [type |-> type, code |-> code]

NoGeo == Geo("None", "None")

(***************************************************************************)
(* Geo.__init__ and Geo.__str__ work on strings; there the strings are       *)
(* tuples of characters, so that split(':') and the f-string are computed.   *)
(***************************************************************************)
\* the argument code left at its default None
NoneArg == <<"(None)">>

UsStr == <<"u", "s">>

StateStr == <<"s", "t", "a", "t", "e">>

CountyStr == <<"c", "o", "u", "n", "t", "y">>

\* str.split(':')
RECURSIVE Split(_)
Split(value) ==
    IF \A i \in 1..Len(value) : value[i] # ":"
    THEN <<value>>
    ELSE LET i == CHOOSE k \in 1..Len(value) :
                    value[k] = ":" /\ \A j \in 1..(k - 1) : value[j] # ":"
         IN  <<SubSeq(value, 1, i - 1)>> \o Split(SubSeq(value, i + 1, Len(value)))

\* us.states.lookup(code).fips for the codes the model uses: a postal
\* abbreviation or a FIPS code resolves to the FIPS code, anything else to None
StateFipsCodes ==
    [code \in {<<"W", "A">>, <<"C", "O">>, <<"5", "3">>, <<"0", "8">>} |->
        IF code \in {<<"W", "A">>, <<"5", "3">>} THEN <<"5", "3">> ELSE <<"0", "8">>]

lookup(code) == IF code \in DOMAIN StateFipsCodes THEN StateFipsCodes[code] ELSE NoneArg

GeoRaised == [error |-> "ValueError", type |-> NoneArg, code |-> NoneArg]

\* a Geo.__init__ that keeps the state code as it was given
Geo__init__NoLookup(value, code) ==
    IF value = UsStr /\ code = NoneArg
    THEN [error |-> "None", type |-> UsStr, code |-> <<"*">>]
    ELSE IF code = NoneArg
    THEN IF Len(Split(value)) = 2
         THEN [error |-> "None", type |-> Split(value)[1], code |-> Split(value)[2]]
         ELSE GeoRaised
    ELSE [error |-> "None", type |-> value, code |-> code]

\* Geo.__init__(value, code=None): the fields of the Geo, or the ValueError
\* raised when value does not split into a type and a code
Geo__init__(value, code) ==
    LET parts == Split(value)
        geo == IF value = UsStr /\ code = NoneArg
               THEN [error |-> "None", type |-> UsStr, code |-> <<"*">>]
               ELSE IF code = NoneArg
               THEN IF Len(parts) = 2
                    THEN [error |-> "None", type |-> parts[1], code |-> parts[2]]
                    ELSE GeoRaised
               ELSE [error |-> "None", type |-> value, code |-> code]
    IN  IF geo.error = "None" /\ geo.type = StateStr /\ lookup(geo.code) # NoneArg
        THEN [geo EXCEPT !.code = lookup(geo.code)]
        ELSE geo

\* Geo.__str__: f'{self.type}:{self.code}'
Geo__str__(geo) == geo.type \o <<":">> \o geo.code

\* a congress number that rounds (year - 1789) / 2 down
calculate_congress_number_floor(year) == ((year - 1789) \div 2) + 1

\* calculate_congress_number: math.ceil((year - 1789) / 2) + 1
calculate_congress_number(year) == ((year - 1789 + 1) \div 2) + 1

NoCode == [name |-> "None", congress |-> 0]

\* get_geo_mappings('gazetteer_codes'): the geography types that have a
\* Gazetteer file code (the ones the model uses)
GazetteerCodes ==
    [t \in {"county", "tract", "place", "congressional district"} |->
        IF t = "county" THEN "counties"
        ELSE IF t = "tract" THEN "tracts"
        ELSE IF t = "place" THEN "place"
        ELSE "CDs"]

\* get_geo_mappings('geo_codes'): the shapefile naming codes (the ones the
\* model uses)
GeoCodes ==
    [t \in {"us", "state", "county", "tract", "place", "congressional district"} |->
        IF t = "us" THEN "us_nation"
        ELSE IF t = "state" THEN "us_state"
        ELSE IF t = "county" THEN "us_county"
        ELSE IF t = "tract" THEN "tract"
        ELSE IF t = "place" THEN "place"
        ELSE "us_cd"]

\* determine_gazetteer_code: None for a type the mapping does not cover
determine_gazetteer_code(year, for_geo_type) ==
    IF for_geo_type # "congressional district"
    THEN IF for_geo_type \in DOMAIN GazetteerCodes
         THEN [name |-> GazetteerCodes[for_geo_type], congress |-> 0]
         ELSE NoCode
    ELSE [name |-> GazetteerCodes[for_geo_type],
          congress |-> calculate_congress_number(year)]

\* the geography types whose shapefile code carries the state FIPS code
StateLevelTypes == {"tract", "place"}

\* determine_geo_code
determine_geo_code(year, for_geo_type, state_fips) ==
    IF for_geo_type # "congressional district"
    THEN [name |-> GeoCodes[for_geo_type], congress |-> 0,
          state_fips |-> IF for_geo_type \in StateLevelTypes THEN state_fips ELSE ""]
    ELSE [name |-> GeoCodes[for_geo_type],
          congress |-> calculate_congress_number(year), state_fips |-> ""]

(***************************************************************************)
(* utilities.py: query validation                                           *)
(***************************************************************************)
GeoTypes(geos) == {geos[i].type : i \in 1..Len(geos)}

\* check_geo_combinations: TRUE, or the InvalidGeographyError it raises
check_geo_combinations(for_geos, in_geos) ==
    LET for_geo_types == GeoTypes(for_geos)
        in_geo_types == GeoTypes(in_geos)
    IN  IF "tract" \in for_geo_types /\ ({"state", "county"} \cap in_geo_types) = {}
        THEN "InvalidGeographyError"
        ELSE IF "tract" \in for_geo_types /\ "place" \in in_geo_types
        THEN "InvalidGeographyError"
        ELSE IF "place" \in for_geo_types /\ "state" \notin in_geo_types
        THEN "InvalidGeographyError"
        ELSE IF "county" \in for_geo_types /\ "state" \notin in_geo_types
        THEN "InvalidGeographyError"
        ELSE "True"

\* check_years: the first year the check lets through
EarliestYear == 2009

\* what a check returns: True, or the exception it raises
CheckPassed == [exc |-> "None", message |-> "None"]

CheckRaised(exc, message) == [exc |-> exc, message |-> message]

\* check_years, with datetime.today().year as current_year; min() of an
\* empty collection raises ValueError
check_years(ys, current_year) ==
    IF ys = {}
    THEN CheckRaised("ValueError", "min() arg is an empty sequence")
    ELSE IF (CHOOSE y \in ys : \A z \in ys : y <= z) < EarliestYear
    THEN CheckRaised("InvalidYearError", "before 2009")
    ELSE IF (CHOOSE y \in ys : \A z \in ys : y >= z) >= current_year
    THEN CheckRaised("InvalidYearError", "current year or later")
    ELSE CheckPassed

\* check_geo_estimates: its raise is a plain ValueError
check_geo_estimates(estimate, for_geos) ==
    IF estimate \in {1, 3} /\ "tract" \in GeoTypes(for_geos)
    THEN CheckRaised("ValueError", "tract can only be performed with 5-year estimates")
    ELSE CheckPassed

(***************************************************************************)
(* The state of one Query and of its run.                                   *)
(***************************************************************************)
VARIABLES
    q_years,            \* Query._years, as a set
    q_variables,        \* Query._variables, as a set of codes
    for_geo,            \* Query.for_geo, a list of Geo
    in_geo,             \* Query.in_geo, a list of Geo
    geometry,           \* Query.geometry: "None", "points" or "polygons"
    invalid_variables,  \* Query._invalid_variables: year -> list of codes
    cache,              \* the cache directory: archive -> "absent", "ok", "corrupt"
    pc,                 \* where Query.run is
    calls,              \* the calls of the phase being gathered
    error,              \* the exception raised out of the gather, or out of run
    run_variables,      \* run's local variables
    tables,             \* run's local tables
    gazetteer_files,    \* run's local gazetteer_files
    shapefiles,         \* run's local shapefiles
    dataframe,          \* what run returns
    warnings,           \* what was logged with logger.warning
    started,            \* history: how many calls of each kind were started
    completed,          \* history: how many calls of each kind ended (result or raise)
    cv_variables,       \* chunk_variables: its argument variables
    cv_max_size,        \* chunk_variables: its argument max_size
    cv_chunks,          \* chunk_variables: the chunks it yielded
    fn_call,            \* a helper function called on its own: its name and arguments
    fn_result,          \* what that call returned or raised
    session_open,       \* CensusAPI._session: whether a session is open
    sessions_opened     \* history: how many sessions were opened

queryVars == <<q_years, q_variables, for_geo, in_geo, geometry>>

runVars == <<invalid_variables, cache, pc, calls, error, run_variables, tables,
             gazetteer_files, shapefiles, dataframe, warnings, started, completed>>

chunkVars == <<cv_variables, cv_max_size, cv_chunks>>

utilVars == <<fn_call, fn_result>>

sessionVars == <<session_open, sessions_opened>>

vars == <<queryVars, runVars, chunkVars, utilVars, sessionVars>>

\* Query.years
years == SortedInts(q_years)

\* Query.variables
variables == SortedStrings(q_variables)

\* Query.resolution: the modelled queries leave it unset
resolution == "None"

(***************************************************************************)
(* query.py: grouping the variables                                         *)
(***************************************************************************)
\* the groups of one year, from its variables that are not invalid
GroupsOf(year, valid) ==
    Map(LAMBDA name :
            [year |-> year, table_name |-> name,
             variables |-> SelectSeq(valid,
                 LAMBDA v : parse_table_name_from_variable(v) = name)],
        Unique(Map(parse_table_name_from_variable, valid)))

\* one year of a loop that skips no variable
GroupsOfYearAll(year) == GroupsOf(year, variables)

\* one year of the loop of get_variables_by_year_and_table_name
GroupsOfYear(year) ==
    GroupsOf(year, SelectSeq(variables, LAMBDA v : v \notin Range(invalid_variables[year])))

\* a grouping that does not look at the invalid variables
get_variables_by_year_and_table_name_all ==
    FlatMap(LAMBDA year : GroupsOf(year, variables), years)

\* get_variables_by_year_and_table_name: the (year, table_name) groups in
\* insertion order, without the variables recorded invalid for the year
get_variables_by_year_and_table_name == FlatMap(GroupsOfYear, years)

(***************************************************************************)
(* api.py: the fetch calls.  A call is a record: what was asked, how many   *)
(* attempts were made, whether it is running, done (result), raised (exc)   *)
(* or cancelled.                                                            *)
(***************************************************************************)
None == [tag |-> "None"]

Pending == [tag |-> "pending"]

Kinds == {"fetch_variable", "fetch_table", "fetch_gazetteer_file", "fetch_shapefile"}

NewCall(kind, year, table_name, vs, geo) ==
    [kind |-> kind, year |-> year, table_name |-> table_name, variables |-> vs,
     for_geo |-> geo, attempts |-> 1, status |-> "running", result |-> Pending,
     exc |-> "None", rank |-> 0]

Done(call, result) == [call EXCEPT !.status = "done", !.result = result]

\* a call that is not decorated with @retry: an exception ends it
Raise(call, exc) == [call EXCEPT !.status = "raised", !.exc = exc]

\* a retry that stops after the attempt that follows the 5th
retry_inclusive(call, exc) ==
    IF call.attempts <= MaxAttempts
    THEN [call EXCEPT !.attempts = @ + 1]
    ELSE Raise(call, exc)

\* @retry(stop=stop_after_attempt(5), reraise=True): a failed attempt is
\* followed by another one until 5 were made, then the exception is re-raised

retry(call, exc) ==
    IF call.attempts < MaxAttempts
    THEN [call EXCEPT !.attempts = @ + 1]
    ELSE Raise(call, exc)

\* what the Census API answers to a variable request, or the transport fails
VariableResponses == {"label", "no_label", "not_json", "exception"}

\* what a server answers to a table or file request, or the transport fails
Responses == {"200", "non_200", "exception"}

\* fetch_variable: the JSON of the variable, or a stub with its name when the
\* response is not JSON; the year is added to either
fetch_variable(call, response) ==
    IF response = "exception" THEN retry(call, "TransportError")
    ELSE Done(call, [tag |-> "variable", name |-> call.variables[1], year |-> call.year,
                     label |-> (response = "label"), stub |-> (response = "not_json")])

\* a value of a response: the string of a number, or null
Raw(n) == [tag |-> "str", number |-> n]

\* the estimate the runs of a query are explored with
SomeEstimate == 1250

\* a table of a response, with geo_type and year added: one value per variable
Table(year, geo_type, vs, values) ==
    [tag |-> "table", year |-> year, geo_type |-> geo_type, variables |-> vs,
     values |-> values]

\* fetch_table: CensusAPIUnknownError for a non-200 response, else the table
\* with geo_type and year added to every row
fetch_table(call, response) ==
    IF response = "exception" THEN retry(call, "TransportError")
    ELSE IF response = "non_200" THEN retry(call, "CensusAPIUnknownError")
    ELSE Done(call, Table(call.year, call.for_geo.type, call.variables,
                          Map(LAMBDA v : Raw(SomeEstimate), call.variables)))

\* fetch_gazetteer_file before its request: None when the type has no code
GazetteerHasCode(call) == determine_gazetteer_code(call.year, call.for_geo.type) # NoCode

\* fetch_gazetteer_file after its request: None for a non-200 response, else
\* the dataframe of the file
fetch_gazetteer_file(call, response) ==
    IF response = "exception" THEN Raise(call, "TransportError")
    ELSE IF response = "non_200" THEN Done(call, None)
    ELSE Done(call, [tag |-> "dataframe", year |-> call.year,
                     gazetteer_geo_type |-> call.for_geo.type])

\* in_geo_dict.get('state', ''): the code of the last state of in_geo
StateFips(in_geos) ==
    LET states == SelectSeq(in_geos, LAMBDA g : g.type = "state")
    IN  IF states = <<>> THEN "" ELSE states[Len(states)].code

\* build_shapefile_url(...).name: cb_{year}_{geo_code}_{resolution}.zip
ArchiveName(year, geo, in_geos, res) ==
    [year |-> year,
     geo_code |-> determine_geo_code(year, geo.type, StateFips(in_geos)),
     resolution |-> IF res = "None"
                    THEN (IF geo.type # "us" THEN "500k" ELSE "5m")
                    ELSE res]

CachedFilepath(call) == ArchiveName(call.year, call.for_geo, in_geo, resolution)

\* fetch_shapefile after its request: None for a non-200 response, else the
\* path of the file it wrote
fetch_shapefile(call, response) ==
    IF response = "exception" THEN Raise(call, "TransportError")
    ELSE IF response = "non_200" THEN Done(call, None)
    ELSE Done(call, [tag |-> "path", archive |-> CachedFilepath(call)])

(***************************************************************************)
(* query.py: the calls each phase assembles                                 *)
(***************************************************************************)
\* get_variables: one fetch_variable call per variable of every group
VariableCallsOfGroup(group) ==
    Map(LAMBDA v : NewCall("fetch_variable", group.year, group.table_name, <<v>>, NoGeo),
        group.variables)

VariableCalls == FlatMap(VariableCallsOfGroup, get_variables_by_year_and_table_name)

\* get_tables: for every group, product(for_geo, chunk_variables(variables))
TableCallsOfChunks(group, chunks) ==
    FlatMap(LAMBDA geo :
                Map(LAMBDA chunk :
                        NewCall("fetch_table", group.year, group.table_name, chunk, geo),
                    chunks),
            for_geo)

\* one call for all the variables of a group
TableCallsOfGroupUnchunked(group) ==
    TableCallsOfChunks(group, <<group.variables>>)

TableCallsOfGroup(group) ==
    TableCallsOfChunks(group, chunk_variables(group.variables, DefaultMaxSize))

TableCalls == FlatMap(TableCallsOfGroup, get_variables_by_year_and_table_name)

\* product(years from start_year on, for_geo)
GeometryCalls(kind, start_year) ==
    FlatMap(LAMBDA year :
                Map(LAMBDA geo : NewCall(kind, year, "None", <<>>, geo), for_geo),
            SelectSeq(years, LAMBDA y : y >= start_year))

\* get_gazetteer_files; a call for a type without a code ends at once
GazetteerCalls ==
    Map(LAMBDA call : IF GazetteerHasCode(call) THEN call ELSE Done(call, None),
        GeometryCalls("fetch_gazetteer_file", GazetteerStartYear))

\* get_shapefiles with no look at the cache
ShapefileCallsUncached == GeometryCalls("fetch_shapefile", ShapefileStartYear)

\* get_shapefiles; a call whose archive is cached ends at once with its path
ShapefileCalls ==
    Map(LAMBDA call :
            IF cache[CachedFilepath(call)] # "absent"
            THEN Done(call, [tag |-> "path", archive |-> CachedFilepath(call)])
            ELSE call,
        GeometryCalls("fetch_shapefile", ShapefileStartYear))

\* the archives a polygons query can ask for
QueryArchives ==
    IF geometry = "polygons"
    THEN {ArchiveName(y, for_geo[i], in_geo, resolution) :
            y \in {z \in q_years : z >= ShapefileStartYear}, i \in 1..Len(for_geo)}
    ELSE {}

(***************************************************************************)
(* query.py: assembling the dataframe.  A row of the model is one            *)
(* (geography type, year, variable) observation with its value; what the     *)
(* conversions raise is returned in the field error.                         *)
(***************************************************************************)
NotNone(results) == SelectSeq(results, LAMBDA r : r.tag # "None")

\* a float64 value, and the missing value
Float(n) == [tag |-> "float", number |-> n]

NaN == [tag |-> "NaN"]

\* astype(float): the number a string denotes, NaN for null
astype_float(raw) == IF raw = None THEN NaN ELSE Float(raw.number)

\* subset.melt(id_vars): one row per variable column of a table
Melt(t) ==
    Tuple([j \in 1..Len(t.variables) |->
              [geo_type |-> t.geo_type, year |-> t.year, variable |-> t.variables[j],
               value |-> t.values[j]]])

\* the geography types in the order of Python's < on strings
SortedGeoTypes == <<"county", "place", "state", "tract", "us">>

GeoTypeRank(type) == CHOOSE i \in 1..Len(SortedGeoTypes) : SortedGeoTypes[i] = type

\* the order of sort_values(by=['geo_type', 'variable', 'NAME', 'year']); a
\* geography type of the model has one unit, so that NAME decides nothing
RowLess(a, b) ==
    IF a.geo_type # b.geo_type THEN GeoTypeRank(a.geo_type) < GeoTypeRank(b.geo_type)
    ELSE IF a.variable # b.variable THEN StrLess(a.variable, b.variable)
    ELSE a.year < b.year

\* sort_values: rows with equal keys keep their order
sort_values(rows) ==
    LET n == Len(rows)
        Before(j, k) == RowLess(rows[j], rows[k]) \/ (~RowLess(rows[k], rows[j]) /\ j < k)
        rank == [k \in 1..n |-> Cardinality({j \in 1..n : Before(j, k)})]
    IN  Tuple([i \in 1..n |-> rows[CHOOSE k \in 1..n : rank[k] = i - 1]])

\* convert_tables_to_dataframe: melt every table, then pd.concat, which
\* raises ValueError when there is nothing to concatenate; the rows are
\* sorted and their values converted to float
convert_tables_to_dataframe(ts) ==
    IF ts = <<>>
    THEN [error |-> "ValueError", rows |-> <<>>]
    ELSE [error |-> "None",
          rows |-> Map(LAMBDA r : [r EXCEPT !.value = astype_float(@)],
                       sort_values(FlatMap(Melt, ts)))]

\* convert_variables_to_dataframe: a record per (year, name) key of the
\* variables, name renamed to variable
convert_variables_to_dataframe(vs) ==
    {[variable |-> v.name, year |-> v.year, label |-> v.label] : v \in vs}

\* the items of a set, one after the other
RECURSIVE SeqOf(_)
SeqOf(S) ==
    IF S = {} THEN <<>>
    ELSE LET x == CHOOSE y \in S : TRUE IN <<x>> \o SeqOf(S \ {x})

\* an inner join on ['variable', 'year']: rows without a record are dropped
merge_variables_inner(rows, variables_dataframe) ==
    [error |-> "None",
     rows |-> FlatMap(LAMBDA r :
                  Map(LAMBDA v : [geo_type |-> r.geo_type, year |-> r.year,
                                  variable |-> r.variable, value |-> r.value,
                                  label |-> v.label],
                      SeqOf({v \in variables_dataframe :
                                v.variable = r.variable /\ v.year = r.year})),
                  rows)]

\* tables_dataframe.merge(right=variables_dataframe, how='left',
\* on=['variable', 'year']): a row per matching record, or the row with a
\* null label when there is none; KeyError when the variables are empty and
\* their dataframe has no columns
merge_variables(rows, variables_dataframe) ==
    IF variables_dataframe = {}
    THEN [error |-> "KeyError", rows |-> <<>>]
    ELSE [error |-> "None",
          rows |-> FlatMap(LAMBDA r :
                       LET matches == {v \in variables_dataframe :
                                          v.variable = r.variable /\ v.year = r.year}
                       IN  IF matches = {}
                           THEN <<[geo_type |-> r.geo_type, year |-> r.year,
                                   variable |-> r.variable, value |-> r.value,
                                   label |-> FALSE]>>
                           ELSE Map(LAMBDA v : [geo_type |-> r.geo_type, year |-> r.year,
                                                variable |-> r.variable, value |-> r.value,
                                                label |-> v.label],
                                    SeqOf(matches)),
                       rows)]

\* annotations.csv: the values that stand for an annotation, as
\* test_load_annotations_dataframe lists them
AnnotationValues ==
    {-999999999, -888888888, -666666666, -555555555, -333333333, -222222222}

\* the text of the annotation of a value
Annotation(n) == [tag |-> "annotation", of |-> n]

\* load_annotations_dataframe
annotations_dataframe ==
    {[value |-> Float(n), annotation |-> Annotation(n)] : n \in AnnotationValues}

\* dataframe.merge(right=annotations_dataframe, how='left', on=['value'])
merge_annotations(rows) ==
    FlatMap(LAMBDA r :
                LET matches == {a \in annotations_dataframe : a.value = r.value}
                IN  IF matches = {}
                    THEN <<[geo_type |-> r.geo_type, year |-> r.year,
                            variable |-> r.variable, value |-> r.value,
                            label |-> r.label, annotation |-> NaN]>>
                    ELSE Map(LAMBDA a : [geo_type |-> r.geo_type, year |-> r.year,
                                         variable |-> r.variable, value |-> r.value,
                                         label |-> r.label, annotation |-> a.annotation],
                             SeqOf(matches)),
            rows)

\* convert_gazetteer_files_to_dataframe: the point records of the files that
\* are not None, or None when there are none
convert_gazetteer_files_to_dataframe(files) ==
    LET gazetteer_tables == NotNone(files)
    IN  IF gazetteer_tables = <<>>
        THEN [error |-> "None", tag |-> "None", records |-> {}, skipped |-> {}]
        ELSE [error |-> "None", tag |-> "geodataframe",
              records |-> {[geo_type |-> gazetteer_tables[i].gazetteer_geo_type,
                            year |-> gazetteer_tables[i].year] :
                              i \in 1..Len(gazetteer_tables)},
              skipped |-> {}]

\* load_geodataframe raises BadZipFile on a corrupted archive
Readable(path) == cache[path.archive] = "ok"

\* convert_shapefiles_to_dataframe: the records of the archives that are not
\* None and can be read; pd.concat raises ValueError when none is left
convert_shapefiles_to_dataframe(paths) ==
    LET filepaths == NotNone(paths)
        subsets == SelectSeq(filepaths, Readable)
        skipped == {filepaths[i].archive : i \in {j \in 1..Len(filepaths) : ~Readable(filepaths[j])}}
    IN  IF subsets = <<>>
        THEN [error |-> "ValueError", tag |-> "None", records |-> {}, skipped |-> skipped]
        ELSE [error |-> "None", tag |-> "geodataframe",
              records |-> {[geo_code |-> subsets[i].archive.geo_code,
                            year |-> subsets[i].archive.year] : i \in 1..Len(subsets)},
              skipped |-> skipped]

\* whether the left join on (GEO_ID, year) finds a geometry record for a row
HasPoint(row, records) ==
    \E r \in records : r.geo_type = row.geo_type /\ r.year = row.year

HasPolygon(row, records) ==
    \E r \in records :
        /\ r.geo_code = determine_geo_code(row.year, row.geo_type, StateFips(in_geo))
        /\ r.year = row.year

\* the geometry branch of assemble_dataframe
GeometryDataframe(files, paths) ==
    IF geometry = "points" THEN convert_gazetteer_files_to_dataframe(files)
    ELSE IF geometry = "polygons" THEN convert_shapefiles_to_dataframe(paths)
    ELSE [error |-> "None", tag |-> "None", records |-> {}, skipped |-> {}]

\* the left merge on (GEO_ID, year) with the geometry dataframe
merge_geometry(rows, geometry_dataframe) ==
    Map(LAMBDA r :
            [geo_type |-> r.geo_type, year |-> r.year, variable |-> r.variable,
             value |-> r.value, label |-> r.label, annotation |-> r.annotation,
             geometry |->
                IF geometry_dataframe.tag = "None" THEN "None"
                ELSE IF geometry = "points"
                THEN (IF HasPoint(r, geometry_dataframe.records) THEN "point" ELSE "None")
                ELSE (IF HasPolygon(r, geometry_dataframe.records)
                      THEN "multipolygon" ELSE "None")],
        rows)

\* the columns of a row other than geometry
NonGeometry(r) == [c \in (DOMAIN r) \ {"geometry"} |-> r[c]]

\* a finalizing that drops no row
keep_duplicates(rows) == rows

\* drop_duplicates(subset=non_geo_names): of the rows that agree in every
\* column but geometry the first is kept
drop_duplicates(rows) ==
    LET kept == {i \in 1..Len(rows) :
                    \A j \in 1..(i - 1) : NonGeometry(rows[j]) # NonGeometry(rows[i])}
    IN  Tuple([k \in 1..Cardinality(kept) |->
                  rows[CHOOSE i \in kept : Cardinality({j \in kept : j < i}) = k - 1]])

\* a finalizing that leaves the annotated values in place
finalize_dataframe_annotated(rows) == drop_duplicates(rows)

\* finalize_dataframe: drop the duplicates, then the value of every row with
\* an annotation is set to '' and to_numeric(errors='coerce') makes it NaN
finalize_dataframe(rows) ==
    Map(LAMBDA r : [r EXCEPT !.value = IF r.annotation # NaN THEN NaN ELSE @],
        drop_duplicates(rows))

\* what assemble_dataframe raises, with the archives skipped until then
AssembleRaised(exc, skipped) ==
    [error |-> exc, rows |-> <<>>, geometry_column |-> FALSE, skipped |-> skipped]

\* assemble_dataframe: tables joined with the variables' labels, with the
\* annotations and, when a geometry dataframe was obtained, with the
\* geometry; then finalized
assemble_dataframe(vs, ts, files, paths) ==
    LET tables_dataframe == convert_tables_to_dataframe(ts)
        merged == merge_variables(tables_dataframe.rows, convert_variables_to_dataframe(vs))
        geometry_dataframe == GeometryDataframe(files, paths)
    IN  IF tables_dataframe.error # "None"
        THEN AssembleRaised(tables_dataframe.error, {})
        ELSE IF merged.error # "None"
        THEN AssembleRaised(merged.error, {})
        ELSE IF geometry_dataframe.error # "None"
        THEN AssembleRaised(geometry_dataframe.error, geometry_dataframe.skipped)
        ELSE [error |-> "None",
              rows |-> finalize_dataframe(
                           merge_geometry(merge_annotations(merged.rows),
                                          geometry_dataframe)),
              geometry_column |-> geometry_dataframe.tag # "None",
              skipped |-> geometry_dataframe.skipped]

NoTable == [error |-> "None", rows |-> <<>>, geometry_column |-> FALSE, skipped |-> {}]

(***************************************************************************)
(* The queries and cache contents the model explores.                       *)
(***************************************************************************)
YearUniverse == {2011, 2012, 2013}

\* two detail variables, a subject variable and a code of no known table
VariableUniverse ==
    {VarCode(<<"B">>, 1), VarCode(<<"B">>, 2), VarCode(<<"S">>, 1), VarCode(<<"X">>, 1)}

\* datetime.today().year at the time of the query
current_year == 2014

County == Geo("county", "*")

Us == Geo("us", "*")

State08 == Geo("state", "08")

\* one selector, two selectors of different types, the same selector twice
ForGeoLists == {<<County>>, <<Us>>, <<County, Us>>, <<County, County>>}

InGeoLists == {<<>>, <<State08>>}

Warning(kind, year, what) == [kind |-> kind, year |-> year, what |-> what]

Count(cs, statuses) == Cardinality({i \in 1..Len(cs) : cs[i].status \in statuses})

\* Query.__init__ and _validate_query_parameters: a Query that passed the
\* checks of its constructor.  The variables are wrapped and stored, their
\* codes are not looked at; no for_geo of the model is a tract, so that
\* check_geo_estimates passes for every estimate
InitQuery ==
    /\ q_years \in (SUBSET YearUniverse) \ {{}}
    /\ q_variables \in (SUBSET VariableUniverse) \ {{}}
    /\ for_geo \in ForGeoLists
    /\ in_geo \in InGeoLists
    /\ geometry \in {"None", "points", "polygons"}
    /\ check_years(q_years, current_year) = CheckPassed
    /\ check_geo_combinations(for_geo, in_geo) = "True"
    /\ \A estimate \in {1, 3, 5} : check_geo_estimates(estimate, for_geo) = CheckPassed

\* no helper function is called on its own
NoCall == [fn |-> "None"]

\* no session was opened yet
NoSession ==
    /\ session_open = FALSE
    /\ sessions_opened = 0

IdleUtilities ==
    /\ fn_call = NoCall
    /\ fn_result = Pending
    /\ NoSession

\* chunk_variables is not being explored
IdleChunk ==
    /\ cv_variables = <<>>
    /\ cv_max_size = 1
    /\ cv_chunks = <<>>
    /\ IdleUtilities

\* the state after Query.__init__: nothing is invalid, nothing has run; the
\* cache directory holds whatever earlier runs left, also a file that an
\* interrupted download corrupted
Init ==
    /\ InitQuery
    /\ invalid_variables = [y \in q_years |-> <<>>]
    /\ Len(VariableCalls) <= MaxCalls
    /\ Len(TableCalls) <= MaxCalls
    /\ cache \in [QueryArchives -> {"absent", "ok", "corrupt"}]
    /\ pc = "start"
    /\ calls = <<>>
    /\ error = "None"
    /\ run_variables = {}
    /\ tables = <<>>
    /\ gazetteer_files = <<>>
    /\ shapefiles = <<>>
    /\ dataframe = NoTable
    /\ warnings = {}
    /\ started = [k \in Kinds |-> 0]
    /\ completed = [k \in Kinds |-> 0]
    /\ IdleChunk

(***************************************************************************)
(* CensusAPI.gather_calls: asyncio.gather of the calls of a phase.           *)
(***************************************************************************)
\* gather_calls: a session is created for the calls of the phase, then the
\* tasks are created and run to their first await
Gather(kind, cs, next_pc) ==
    /\ session_open' = TRUE
    /\ sessions_opened' = sessions_opened + 1
    /\ calls' = cs
    /\ pc' = next_pc
    /\ started' = [started EXCEPT ![kind] = @ + Len(cs)]
    /\ completed' = [completed EXCEPT ![kind] = @ + Count(cs, {"done", "raised"})]

\* await gather(*calls) has every result
Gathered == \A i \in 1..Len(calls) : calls[i].status = "done"

\* the results in the order in which the calls ended
ResultsAsCompleted ==
    [k \in 1..Len(calls) |-> calls[CHOOSE i \in 1..Len(calls) : calls[i].rank = k].result]

\* gather returns the results in the order of the calls
Results == [i \in 1..Len(calls) |-> calls[i].result]

\* one call of the phase gets its response and runs to its end or to its
\* next attempt
Respond(i, call) ==
    /\ calls' = [calls EXCEPT ![i] = call]
    /\ completed' = [completed EXCEPT ![call.kind] =
                        IF call.status \in {"done", "raised"} THEN @ + 1 ELSE @]
    /\ error' = IF call.status = "raised" /\ error = "None" THEN call.exc ELSE error

GatherPcs == {"get_variables", "get_tables", "get_gazetteer_files", "get_shapefiles"}

\* a gather that gives up although no call raised
GatherRaiseAny ==
    /\ pc \in GatherPcs
    /\ calls' = [i \in 1..Len(calls) |->
                    IF calls[i].status = "running"
                    THEN [calls[i] EXCEPT !.status = "cancelled"]
                    ELSE calls[i]]
    /\ pc' = "raised"
    /\ session_open' = FALSE
    /\ UNCHANGED <<queryVars, chunkVars, utilVars, sessions_opened, invalid_variables, cache, error, run_variables,
                   tables, gazetteer_files, shapefiles, dataframe, warnings, started,
                   completed>>

\* gather without return_exceptions: the first exception raised by a call is
\* raised out of the await; asyncio.run then cancels the tasks still running
\* and the exception leaves run
GatherRaise ==
    /\ pc \in GatherPcs
    /\ error # "None"
    /\ calls' = [i \in 1..Len(calls) |->
                    IF calls[i].status = "running"
                    THEN [calls[i] EXCEPT !.status = "cancelled"]
                    ELSE calls[i]]
    /\ pc' = "raised"
    /\ session_open' = FALSE
    /\ UNCHANGED <<queryVars, chunkVars, utilVars, sessions_opened, invalid_variables, cache, error, run_variables,
                   tables, gazetteer_files, shapefiles, dataframe, warnings, started,
                   completed>>

(***************************************************************************)
(* Query.run                                                                *)
(***************************************************************************)
\* the exceptions parse_table_name_from_variable raises
ParseErrors == {"InvalidVariableError", "ValueError"}

\* the variables of the query whose code names no table, in query order
UnparsedVariables ==
    SelectSeq(variables, LAMBDA v : parse_table_name_from_variable(v) \in ParseErrors)

\* get_variables up to its gather: get_variables_by_year_and_table_name
\* parses every variable of the first year and raises at the first code
\* that names no table, before any call is assembled
GetVariablesStart ==
    /\ pc = "start"
    /\ IF UnparsedVariables # <<>>
       THEN /\ pc' = "raised"
            /\ error' = parse_table_name_from_variable(UnparsedVariables[1])
            /\ UNCHANGED <<calls, started, completed, sessionVars>>
       ELSE /\ Gather("fetch_variable", VariableCalls, "get_variables")
            /\ UNCHANGED error
    /\ UNCHANGED <<queryVars, chunkVars, utilVars, invalid_variables, cache, run_variables,
                   tables, gazetteer_files, shapefiles, dataframe, warnings>>

VariableResponse ==
    /\ pc = "get_variables"
    /\ \E i \in 1..Len(calls), response \in VariableResponses :
        /\ calls[i].status = "running"
        /\ Respond(i, fetch_variable(calls[i], response))
    /\ UNCHANGED <<queryVars, chunkVars, utilVars, sessionVars, invalid_variables, cache, pc, run_variables,
                   tables, gazetteer_files, shapefiles, dataframe, warnings, started>>

\* the results without a usable label, in the order of the calls
InvalidResults(results) == SelectSeq(results, LAMBDA r : ~r.label)

\* get_variables after the gather: compile the invalid variables
GetVariablesReturn ==
    /\ pc = "get_variables"
    /\ error = "None"
    /\ Gathered
    /\ LET invalid == InvalidResults(Results)
       IN  /\ invalid_variables' =
                [y \in DOMAIN invalid_variables |->
                    invalid_variables[y] \o
                    [k \in 1..Len(SelectSeq(invalid, LAMBDA r : r.year = y)) |->
                        SelectSeq(invalid, LAMBDA r : r.year = y)[k].name]]
           /\ warnings' = warnings \cup
                {Warning("invalid_variable", invalid[k].year, invalid[k].name) :
                    k \in 1..Len(invalid)}
           /\ run_variables' = {r \in Range(Results) : r.label}
    /\ pc' = "got_variables"
    /\ calls' = <<>>
    /\ session_open' = FALSE
    /\ UNCHANGED <<queryVars, chunkVars, utilVars, sessions_opened, cache, error, tables, gazetteer_files,
                   shapefiles, dataframe, started, completed>>

\* get_tables started while the gather of get_variables is still awaited
GetTablesStartEarly ==
    /\ pc \in {"get_variables", "got_variables"}
    /\ Gather("fetch_table", TableCalls, "get_tables")
    /\ UNCHANGED <<queryVars, chunkVars, utilVars, invalid_variables, cache, error, run_variables,
                   tables, gazetteer_files, shapefiles, dataframe, warnings>>

GetTablesStart ==
    /\ pc = "got_variables"
    /\ Gather("fetch_table", TableCalls, "get_tables")
    /\ UNCHANGED <<queryVars, chunkVars, utilVars, invalid_variables, cache, error, run_variables,
                   tables, gazetteer_files, shapefiles, dataframe, warnings>>

TableResponse ==
    /\ pc = "get_tables"
    /\ \E i \in 1..Len(calls), response \in Responses :
        /\ calls[i].status = "running"
        /\ Respond(i, fetch_table(calls[i], response))
    /\ UNCHANGED <<queryVars, chunkVars, utilVars, sessionVars, invalid_variables, cache, pc, run_variables,
                   tables, gazetteer_files, shapefiles, dataframe, warnings, started>>

\* a get_tables that gathers with return_exceptions and keeps the tables of
\* the calls that returned one
GetTablesReturnExceptions ==
    /\ pc = "get_tables"
    /\ \A i \in 1..Len(calls) : calls[i].status \in {"done", "raised"}
    /\ tables' = Map(LAMBDA call : call.result,
                     SelectSeq(calls, LAMBDA call : call.status = "done"))
    /\ pc' = "got_tables"
    /\ calls' = <<>>
    /\ session_open' = FALSE
    /\ UNCHANGED <<queryVars, chunkVars, utilVars, sessions_opened, invalid_variables, cache, error, run_variables,
                   gazetteer_files, shapefiles, dataframe, warnings, started, completed>>

GetTablesReturn ==
    /\ pc = "get_tables"
    /\ error = "None"
    /\ Gathered
    /\ tables' = Results
    /\ pc' = "got_tables"
    /\ calls' = <<>>
    /\ session_open' = FALSE
    /\ UNCHANGED <<queryVars, chunkVars, utilVars, sessions_opened, invalid_variables, cache, error, run_variables,
                   gazetteer_files, shapefiles, dataframe, warnings, started, completed>>

GetGazetteerFilesStart ==
    /\ pc = "got_tables"
    /\ geometry = "points"
    /\ Gather("fetch_gazetteer_file", GazetteerCalls, "get_gazetteer_files")
    /\ warnings' = warnings \cup
            {Warning("gazetteer", GazetteerCalls[i].year, <<GazetteerCalls[i].for_geo.type>>) :
                i \in {j \in 1..Len(GazetteerCalls) : GazetteerCalls[j].status = "done"}}
    /\ UNCHANGED <<queryVars, chunkVars, utilVars, invalid_variables, cache, error, run_variables,
                   tables, gazetteer_files, shapefiles, dataframe>>

GazetteerResponse ==
    /\ pc = "get_gazetteer_files"
    /\ \E i \in 1..Len(calls), response \in Responses :
        /\ calls[i].status = "running"
        /\ Respond(i, fetch_gazetteer_file(calls[i], response))
        /\ warnings' = IF response = "non_200"
                       THEN warnings \cup
                            {Warning("gazetteer", calls[i].year, <<calls[i].for_geo.type>>)}
                       ELSE warnings
    /\ UNCHANGED <<queryVars, chunkVars, utilVars, sessionVars, invalid_variables, cache, pc, run_variables,
                   tables, gazetteer_files, shapefiles, dataframe, started>>

GetGazetteerFilesReturn ==
    /\ pc = "get_gazetteer_files"
    /\ error = "None"
    /\ Gathered
    /\ gazetteer_files' = Results
    /\ pc' = "got_geometry"
    /\ calls' = <<>>
    /\ session_open' = FALSE
    /\ UNCHANGED <<queryVars, chunkVars, utilVars, sessions_opened, invalid_variables, cache, error, run_variables,
                   tables, shapefiles, dataframe, warnings, started, completed>>

GetShapefilesStart ==
    /\ pc = "got_tables"
    /\ geometry = "polygons"
    /\ Gather("fetch_shapefile", ShapefileCalls, "get_shapefiles")
    /\ UNCHANGED <<queryVars, chunkVars, utilVars, invalid_variables, cache, error, run_variables,
                   tables, gazetteer_files, shapefiles, dataframe, warnings>>

ShapefileResponse ==
    /\ pc = "get_shapefiles"
    /\ \E i \in 1..Len(calls), response \in Responses :
        /\ calls[i].status = "running"
        /\ Respond(i, fetch_shapefile(calls[i], response))
        /\ cache' = IF response = "200"
                    THEN [cache EXCEPT ![CachedFilepath(calls[i])] = "ok"]
                    ELSE cache
        /\ warnings' = IF response = "non_200"
                       THEN warnings \cup
                            {Warning("shapefile", calls[i].year, <<calls[i].for_geo.type>>)}
                       ELSE warnings
    /\ UNCHANGED <<queryVars, chunkVars, utilVars, sessionVars, invalid_variables, pc, run_variables,
                   tables, gazetteer_files, shapefiles, dataframe, started>>

GetShapefilesReturn ==
    /\ pc = "get_shapefiles"
    /\ error = "None"
    /\ Gathered
    /\ shapefiles' = Results
    /\ pc' = "got_geometry"
    /\ calls' = <<>>
    /\ session_open' = FALSE
    /\ UNCHANGED <<queryVars, chunkVars, utilVars, sessions_opened, invalid_variables, cache, error, run_variables,
                   tables, gazetteer_files, dataframe, warnings, started, completed>>

\* the end of run: assemble_dataframe returns the table or raises
AssembleDataframe ==
    /\ (pc = "got_geometry" \/ (pc = "got_tables" /\ geometry = "None"))
    /\ LET result == assemble_dataframe(run_variables, tables, gazetteer_files, shapefiles)
       IN  /\ warnings' = warnings \cup
                {Warning("bad_zip", a.year, <<a.geo_code.name>>) : a \in result.skipped}
           /\ IF result.error = "None"
              THEN /\ dataframe' = result
                   /\ pc' = "done"
                   /\ error' = error
              ELSE /\ dataframe' = dataframe
                   /\ pc' = "raised"
                   /\ error' = result.error
    /\ UNCHANGED <<queryVars, chunkVars, utilVars, sessionVars, invalid_variables, cache, calls, run_variables,
                   tables, gazetteer_files, shapefiles, started, completed>>

Next ==
    \/ GetVariablesStart
    \/ VariableResponse
    \/ GetVariablesReturn
    \/ GetTablesStart
    \/ TableResponse
    \/ GetTablesReturn
    \/ GetGazetteerFilesStart
    \/ GazetteerResponse
    \/ GetGazetteerFilesReturn
    \/ GetShapefilesStart
    \/ ShapefileResponse
    \/ GetShapefilesReturn
    \/ GatherRaise
    \/ AssembleDataframe

Spec == Init /\ [][Next]_vars

(***************************************************************************)
(* chunk_variables on its own: every sequence of up to MaxLen variables and  *)
(* every max_size from 1 to MaxSize.                                         *)
(***************************************************************************)
ChunkItems == {VarCode(<<"B">>, 1), VarCode(<<"S">>, 1)}

\* no Query is running
IdleRun ==
    /\ q_years = {2013}
    /\ q_variables = {VarCode(<<"B">>, 1)}
    /\ for_geo = <<Us>>
    /\ in_geo = <<>>
    /\ geometry = "None"
    /\ invalid_variables = [y \in q_years |-> <<>>]
    /\ cache = [a \in {} |-> "absent"]
    /\ pc = "idle"
    /\ calls = <<>>
    /\ error = "None"
    /\ run_variables = {}
    /\ tables = <<>>
    /\ gazetteer_files = <<>>
    /\ shapefiles = <<>>
    /\ dataframe = NoTable
    /\ warnings = {}
    /\ started = [k \in Kinds |-> 0]
    /\ completed = [k \in Kinds |-> 0]

InitChunk ==
    /\ cv_variables \in UNION {[1..n -> ChunkItems] : n \in 0..MaxLen}
    /\ cv_max_size \in 1..MaxSize
    /\ cv_chunks = <<>>
    /\ IdleUtilities
    /\ IdleRun

\* list(chunk_variables(variables, max_size))
ChunkVariables ==
    /\ pc = "idle"
    /\ cv_chunks' = chunk_variables(cv_variables, cv_max_size)
    /\ pc' = "chunked"
    /\ UNCHANGED <<queryVars, utilVars, sessionVars, cv_variables, cv_max_size, invalid_variables, cache, calls,
                   error, run_variables, tables, gazetteer_files, shapefiles, dataframe,
                   warnings, started, completed>>

SpecChunk == InitChunk /\ [][ChunkVariables]_vars

(***************************************************************************)
(* get_tables on its own, for queries with many variables: the state after   *)
(* get_variables found some of them invalid.                                 *)
(***************************************************************************)
\* the variables B01..Bn and S01..Sm
ManyVariables(n, m) ==
    {VarCode(<<"B">>, k) : k \in 1..n} \cup {VarCode(<<"S">>, k) : k \in 1..m}

\* what get_variables may have found invalid: nothing, the variables
\* numbered 01, or the variables with an odd number
InvalidPatterns == {"none", "first", "odd"}

InvalidOf(pattern, vs) ==
    IF pattern = "none" THEN <<>>
    ELSE IF pattern = "first"
    THEN SelectSeq(vs, LAMBDA v : SubSeq(v, Len(v) - 1, Len(v)) = <<"0", "1">>)
    ELSE SelectSeq(vs, LAMBDA v : v[Len(v)] \in {"1", "3", "5", "7", "9"})

InitTables ==
    /\ q_years \in {{2012}, {2012, 2013}}
    /\ \E n \in (1..3) \cup ((DefaultMaxSize - 1)..MaxVars), m \in 0..1 :
           q_variables = ManyVariables(n, m)
    /\ for_geo \in ForGeoLists
    /\ in_geo = <<State08>>
    /\ geometry = "None"
    /\ invalid_variables \in [q_years -> {InvalidOf(p, variables) : p \in InvalidPatterns}]
    /\ cache = [a \in {} |-> "absent"]
    /\ pc = "got_variables"
    /\ calls = <<>>
    /\ error = "None"
    /\ run_variables = {}
    /\ tables = <<>>
    /\ gazetteer_files = <<>>
    /\ shapefiles = <<>>
    /\ dataframe = NoTable
    /\ warnings = {}
    /\ started = [k \in Kinds |-> 0]
    /\ completed = [k \in Kinds |-> 0]
    /\ IdleChunk

SpecTables == InitTables /\ [][GetTablesStart]_vars

(***************************************************************************)
(* assemble_dataframe on its own, for the tables and variables it may be     *)
(* given: values that are estimates, annotation values or null, a selector   *)
(* given twice, variables without a record.                                  *)
(***************************************************************************)
\* how many (geography type, year, variable) cells the tables have
MaxCells == 4

\* the values of a response: an estimate, two annotation values, null
RawValues == {Raw(SomeEstimate), Raw(-666666666), Raw(-222222222), None}

\* the cells of the tables of a query
Cells == GeoTypes(for_geo) \X q_years \X q_variables

\* the tables get_tables returns when the responses hold the values of f: for
\* every year one table per selector, with all the variables
TablesOf(f) ==
    FlatMap(LAMBDA year :
                Map(LAMBDA geo :
                        Table(year, geo.type, variables,
                              Map(LAMBDA v : f[<<geo.type, year, v>>], variables)),
                    for_geo),
            years)

\* the state after get_tables of a query without geometry: the variables
\* are those of some of the (year, variable) pairs
InitAssemble ==
    /\ q_years \in {{2011}, {2011, 2012}}
    /\ q_variables \in {{VarCode(<<"B">>, 1)}, {VarCode(<<"B">>, 1), VarCode(<<"S">>, 1)}}
    /\ for_geo \in {<<County>>, <<County, County>>, <<Us, County>>}
    /\ in_geo = <<State08>>
    /\ geometry = "None"
    /\ Cardinality(Cells) <= MaxCells
    /\ invalid_variables = [y \in q_years |-> <<>>]
    /\ cache = [a \in {} |-> "absent"]
    /\ pc = "got_tables"
    /\ calls = <<>>
    /\ error = "None"
    /\ run_variables \in SUBSET {[tag |-> "variable", name |-> v, year |-> y, label |-> TRUE,
                                   stub |-> FALSE] : v \in q_variables, y \in q_years}
    /\ \E f \in [Cells -> RawValues] : tables = TablesOf(f)
    /\ gazetteer_files = <<>>
    /\ shapefiles = <<>>
    /\ dataframe = NoTable
    /\ warnings = {}
    /\ started = [k \in Kinds |-> 0]
    /\ completed = [k \in Kinds |-> 0]
    /\ IdleChunk

SpecAssemble == InitAssemble /\ [][AssembleDataframe]_vars

(***************************************************************************)
(* __init__.py: the assemble_dataframe of the Query class the package        *)
(* defines itself, which computes percent_change and difference.  It reads   *)
(* the tables and the labels of the results; a query has one for_geo.        *)
(***************************************************************************)
\* join_labels: the left merge with the labels on ['variable', 'year'], then
\* the rows without a label are dropped
join_labels(rows, labels_dataframe) ==
    SelectSeq(merge_variables(rows, labels_dataframe).rows, LAMBDA r : r.label)

\* join_annotations: astype(float), the left merge with the annotations on
\* value, then the value of every row with an annotation is set to NaN
join_annotations(rows) ==
    Map(LAMBDA r : [r EXCEPT !.value = IF r.annotation # NaN THEN NaN ELSE @],
        merge_annotations(Map(LAMBDA r : [r EXCEPT !.value = astype_float(@)], rows)))

\* the rows of the group of row k of groupby(['GEO_ID', 'variable']), in order
GroupOf(rows, k) ==
    LET members == {j \in 1..Len(rows) : /\ rows[j].geo_type = rows[k].geo_type
                                           /\ rows[j].variable = rows[k].variable}
    IN  Tuple([i \in 1..Cardinality(members) |->
                  CHOOSE j \in members : Cardinality({m \in members : m < j}) = i - 1])

\* fillna(method='pad'): the last value up to place i that is not NaN
Pad(series, i) ==
    LET valid == {j \in 1..i : series[j] # NaN}
    IN  IF valid = {} THEN NaN ELSE series[CHOOSE j \in valid : \A m \in valid : m <= j]

\* the change from b to a as a fraction of b, in hundredths
PercentChange(a, b) == Float(((a - b) * 100) \div b)

\* Series.pct_change() at place i: the padded series divided by itself
\* shifted by one, minus 1
pct_change(series, i) ==
    IF i = 1 THEN NaN
    ELSE IF Pad(series, i - 1) = NaN THEN NaN
    ELSE PercentChange(Pad(series, i).number, Pad(series, i - 1).number)

\* Series.diff() at place i: the series minus itself shifted by one
diff(series, i) ==
    IF i = 1 THEN NaN
    ELSE IF series[i] = NaN \/ series[i - 1] = NaN THEN NaN
    ELSE Float(series[i].number - series[i - 1].number)

\* groupby(['GEO_ID', 'variable'])['value'] .pct_change() and .diff()
compute_changes(rows) ==
    Tuple([k \in 1..Len(rows) |->
              LET group == GroupOf(rows, k)
                  series == Map(LAMBDA j : rows[j].value, group)
                  place == CHOOSE i \in 1..Len(group) : group[i] = k
              IN  [geo_type |-> rows[k].geo_type, year |-> rows[k].year,
                   variable |-> rows[k].variable, value |-> rows[k].value,
                   label |-> rows[k].label, annotation |-> rows[k].annotation,
                   percent_change |-> pct_change(series, place),
                   difference |-> diff(series, place)]])

\* assemble_dataframe of __init__.py up to its derived columns: melt, concat
\* and sort by ['variable', 'NAME', 'year'], join_labels, join_annotations,
\* percent_change and difference
legacy_assemble_dataframe(labels, data) ==
    compute_changes(
        join_annotations(
            join_labels(sort_values(FlatMap(Melt, data)),
                        convert_variables_to_dataframe(labels))))

\* the values of a response: two estimates, an annotation value, null
SeriesValues == {Raw(10), Raw(20), Raw(-666666666), None}

\* the labels of the years: every variable of the query, or all but one
LabelsOf(missing) ==
    {[tag |-> "variable", name |-> c[3], year |-> c[2], label |-> TRUE, stub |-> FALSE] :
        c \in Cells \ missing}

\* the results of gather_results: a table per year, the labels of the years
InitLegacy ==
    /\ q_years \in {{2011, 2012}, {2011, 2012, 2013}}
    /\ q_variables \in {{VarCode(<<"B">>, 1)}, {VarCode(<<"B">>, 1), VarCode(<<"S">>, 1)}}
    /\ for_geo = <<County>>
    /\ in_geo = <<State08>>
    /\ geometry = "None"
    /\ Cardinality(Cells) <= MaxCells
    /\ invalid_variables = [y \in q_years |-> <<>>]
    /\ cache = [a \in {} |-> "absent"]
    /\ pc = "gathered"
    /\ calls = <<>>
    /\ error = "None"
    /\ run_variables \in {LabelsOf(missing) : missing \in {{}} \cup {{c} : c \in Cells}}
    /\ \E f \in [Cells -> SeriesValues] : tables = TablesOf(f)
    /\ gazetteer_files = <<>>
    /\ shapefiles = <<>>
    /\ dataframe = NoTable
    /\ warnings = {}
    /\ started = [k \in Kinds |-> 0]
    /\ completed = [k \in Kinds |-> 0]
    /\ IdleChunk

\* run of __init__.py after its gather: assemble_dataframe(results)
LegacyAssembleDataframe ==
    /\ pc = "gathered"
    /\ dataframe' = [error |-> "None",
                     rows |-> legacy_assemble_dataframe(run_variables, tables),
                     geometry_column |-> FALSE, skipped |-> {}]
    /\ pc' = "done"
    /\ UNCHANGED <<queryVars, chunkVars, utilVars, sessionVars, invalid_variables, cache, calls, error,
                   run_variables, tables, gazetteer_files, shapefiles, warnings, started,
                   completed>>

SpecLegacy == InitLegacy /\ [][LegacyAssembleDataframe]_vars

(***************************************************************************)
(* geography.py: shapes.  A ring is the sequence of its coordinates, each    *)
(* <<x, y>> or <<x, y, z>>; a polygon has an exterior ring and interior      *)
(* rings; a multipolygon has polygons.                                       *)
(***************************************************************************)
Polygon(exterior, interiors) ==
    [tag |-> "Polygon", exterior |-> exterior, interiors |-> interiors]

MultiPolygon(geoms) == [tag |-> "MultiPolygon", geoms |-> geoms]

\* coerce_polygon_to_multipolygon
coerce_polygon_to_multipolygon(shape) ==
    IF shape.tag # "MultiPolygon" THEN MultiPolygon(<<shape>>) ELSE shape

\* shape.has_z: whether the coordinates of the shape have a third ordinate
has_z(multipolygon) ==
    \E i \in 1..Len(multipolygon.geoms) :
        \E k \in 1..Len(multipolygon.geoms[i].exterior) :
            Len(multipolygon.geoms[i].exterior[k]) = 3

\* [(x, y) for (x, y, *_) in coords]
DropZ(ring) == Map(LAMBDA c : <<c[1], c[2]>>, ring)

\* flatten_geometry: None has no has_z and is returned, as is a shape
\* without z; else every polygon is built anew from the x and y of the
\* coordinates of its exterior
flatten_geometry(multipolygon) ==
    IF multipolygon = None THEN multipolygon
    ELSE IF ~has_z(multipolygon) THEN multipolygon
    ELSE MultiPolygon(Map(LAMBDA polygon : Polygon(DropZ(polygon.exterior), <<>>),
                          multipolygon.geoms))

\* clear_cache: rmtree(CACHE_DIRECTORY_PATH) raises FileNotFoundError when
\* the directory does not exist; else the directory is removed and
\* not CACHE_DIRECTORY_PATH.exists() is returned
clear_cache(exists) ==
    IF ~exists
    THEN [exc |-> "FileNotFoundError", value |-> FALSE, exists |-> exists]
    ELSE [exc |-> "None", value |-> TRUE, exists |-> FALSE]

(***************************************************************************)
(* The helper functions on their own: each is called once on arguments       *)
(* drawn from the sets below.                                                *)
(***************************************************************************)
\* datetime.today().year in the modelled calls of check_years
CurrentYears == {2012, 2013}

CheckedYears == {2004, 2005, 2008, 2009, 2011, 2012, 2013}

CheckYearsCalls ==
    {[fn |-> "check_years", years |-> ys, current_year |-> cy] :
        ys \in SUBSET CheckedYears, cy \in CurrentYears}

CheckedGeoTypes == {"tract", "place", "county", "state", "us"}

\* for_geo with one or two selectors
CheckedForGeos ==
    {<<Geo(t, "*")>> : t \in CheckedGeoTypes} \cup
    {<<Geo(t, "*"), Geo(u, "*")>> : t \in CheckedGeoTypes, u \in CheckedGeoTypes}

\* in_geo with any of a state, a county and a place
CheckedInGeos ==
    {SelectSeq(<<Geo("state", "48"), Geo("county", "041"), Geo("place", "24000")>>,
               LAMBDA g : g.type \in ts) : ts \in SUBSET {"state", "county", "place"}}

CheckGeoCombinationsCalls ==
    {[fn |-> "check_geo_combinations", for_geo |-> f, in_geo |-> i] :
        f \in CheckedForGeos, i \in CheckedInGeos}

CheckGeoEstimatesCalls ==
    {[fn |-> "check_geo_estimates", estimate |-> e, for_geo |-> f] :
        e \in {1, 3, 5}, f \in CheckedForGeos}

GeoTypeStrs == {StateStr, CountyStr, UsStr}

GeoCodeStrs == {<<"0", "8">>, <<"5", "3">>, <<"W", "A">>, <<"X", "X">>, <<"*">>, <<"0", "4", "1">>}

\* Geo(type, code), and Geo(value) with no, one or two colons in value
GeoCalls ==
    {[fn |-> "Geo", value |-> t, code |-> c] : t \in GeoTypeStrs, c \in GeoCodeStrs} \cup
    {[fn |-> "Geo", value |-> t \o <<":">> \o c, code |-> NoneArg] :
        t \in GeoTypeStrs, c \in GeoCodeStrs} \cup
    {[fn |-> "Geo", value |-> v, code |-> NoneArg] :
        v \in {UsStr, StateStr, <<"0", "8", "0", "1", "2">>,
               <<"s", "t", "a", "t", "e", ":", "0", ":", "8">>}}

CongressYears == 2009..2020

CalculateCongressNumberCalls ==
    {[fn |-> "calculate_congress_number", year |-> y] : y \in CongressYears}

\* table codes with and without a mapping, and the empty one
ParsedPrefixes ==
    {<<"B">>, <<"C">>, <<"C", "P">>, <<"D", "P">>, <<"S">>, <<"A">>, <<"B", "P">>,
     <<"S", "C">>, <<>>}

\* what follows the table code: digits first, or no digit at all
ParsedSuffixes ==
    {<<"0", "1">>, <<"0", "1", "B">>, <<"0", "1", "_", "C", "0", "2">>, <<>>, <<"_", "D">>}

ParseTableNameCalls ==
    {[fn |-> "parse_table_name_from_variable", variable |-> p \o x] :
        p \in ParsedPrefixes, x \in ParsedSuffixes}

\* an outer ring and a hole, flat and with a z ordinate
Rings(z) ==
    IF z
    THEN [exterior |-> <<<<0, 0, 10>>, <<4, 0, 10>>, <<4, 4, 11>>, <<0, 0, 10>>>>,
          hole |-> <<<<1, 1, 10>>, <<2, 1, 10>>, <<2, 2, 11>>, <<1, 1, 10>>>>]
    ELSE [exterior |-> <<<<0, 0>>, <<4, 0>>, <<4, 4>>, <<0, 0>>>>,
          hole |-> <<<<1, 1>>, <<2, 1>>, <<2, 2>>, <<1, 1>>>>]

\* polygons without and with a hole
Polygons(z) ==
    {Polygon(Rings(z).exterior, <<>>), Polygon(Rings(z).hole, <<>>),
     Polygon(Rings(z).exterior, <<Rings(z).hole>>)}

\* multipolygons of one or two polygons
MultiPolygons(z) ==
    {MultiPolygon(<<a>>) : a \in Polygons(z)} \cup
    {MultiPolygon(<<a, b>>) : a \in Polygons(z), b \in Polygons(z)}

CoerceCalls ==
    {[fn |-> "coerce_polygon_to_multipolygon", shape |-> shape] :
        shape \in UNION {Polygons(z) \cup MultiPolygons(z) : z \in BOOLEAN}}

FlattenCalls ==
    {[fn |-> "flatten_geometry", multipolygon |-> m] :
        m \in {None} \cup UNION {MultiPolygons(z) : z \in BOOLEAN}}

\* the cache directory exists or not
ClearCacheCalls == {[fn |-> "clear_cache", exists |-> e] : e \in BOOLEAN}

InitUtilities ==
    /\ NoSession
    /\ \/ fn_call \in CheckYearsCalls
       \/ fn_call \in CoerceCalls
       \/ fn_call \in FlattenCalls
       \/ fn_call \in ClearCacheCalls
       \/ fn_call \in CheckGeoCombinationsCalls
       \/ fn_call \in CheckGeoEstimatesCalls
       \/ fn_call \in GeoCalls
       \/ fn_call \in CalculateCongressNumberCalls
       \/ fn_call \in ParseTableNameCalls
    /\ fn_result = Pending
    /\ cv_variables = <<>>
    /\ cv_max_size = 1
    /\ cv_chunks = <<>>
    /\ IdleRun

\* the call returns or raises; nothing else changes
Return(result) ==
    /\ pc = "idle"
    /\ fn_result' = result
    /\ pc' = "returned"
    /\ UNCHANGED <<queryVars, chunkVars, sessionVars, fn_call, invalid_variables, cache, calls, error,
                   run_variables, tables, gazetteer_files, shapefiles, dataframe, warnings,
                   started, completed>>

CheckYears ==
    /\ fn_call.fn = "check_years"
    /\ Return(check_years(fn_call.years, fn_call.current_year))

CheckGeoCombinations ==
    /\ fn_call.fn = "check_geo_combinations"
    /\ Return([value |-> check_geo_combinations(fn_call.for_geo, fn_call.in_geo)])

CheckGeoEstimates ==
    /\ fn_call.fn = "check_geo_estimates"
    /\ Return(check_geo_estimates(fn_call.estimate, fn_call.for_geo))

\* geo = Geo(value, code), then str(geo) and Geo(str(geo))
GeoCall ==
    /\ fn_call.fn = "Geo"
    /\ LET geo == Geo__init__(fn_call.value, fn_call.code)
       IN  Return([geo |-> geo,
                   str |-> IF geo.error = "None" THEN Geo__str__(geo) ELSE NoneArg,
                   reparsed |-> IF geo.error = "None"
                                THEN Geo__init__(Geo__str__(geo), NoneArg)
                                ELSE GeoRaised])

CalculateCongressNumber ==
    /\ fn_call.fn = "calculate_congress_number"
    /\ Return([value |-> calculate_congress_number(fn_call.year)])

ParseTableName ==
    /\ fn_call.fn = "parse_table_name_from_variable"
    /\ Return([value |-> parse_table_name_from_variable(fn_call.variable)])

\* the function applied, and applied again to what it returned
CoercePolygonToMultipolygon ==
    /\ fn_call.fn = "coerce_polygon_to_multipolygon"
    /\ Return([value |-> coerce_polygon_to_multipolygon(fn_call.shape),
               again |-> coerce_polygon_to_multipolygon(
                             coerce_polygon_to_multipolygon(fn_call.shape))])

FlattenGeometry ==
    /\ fn_call.fn = "flatten_geometry"
    /\ Return([value |-> flatten_geometry(fn_call.multipolygon),
               again |-> flatten_geometry(flatten_geometry(fn_call.multipolygon))])

ClearCache ==
    /\ fn_call.fn = "clear_cache"
    /\ Return(clear_cache(fn_call.exists))

NextUtilities ==
    \/ CheckYears
    \/ CoercePolygonToMultipolygon
    \/ FlattenGeometry
    \/ ClearCache
    \/ CheckGeoCombinations
    \/ CheckGeoEstimates
    \/ GeoCall
    \/ CalculateCongressNumber
    \/ ParseTableName

SpecUtilities == InitUtilities /\ [][NextUtilities]_vars

(***************************************************************************)
(* Properties of Query.run (specification Spec).                            *)
(***************************************************************************)
RetriedKinds == {"fetch_variable", "fetch_table"}

CallIndices == 1..Len(calls)

\* a step of one phase in which a call got a response
ResponseStep == pc' = pc /\ pc \in GatherPcs /\ calls' # calls

\* run got past its gathers: assemble_dataframe returned or raised
Assembled == pc \in {"done", "raised"} /\ calls = <<>>

\* C1: the phases of run are strictly sequential.  Whenever a fetch_table
\* call has been started, a fetch_variable call was started for every
\* (year, variable) of the query and each of them has ended; whenever a
\* fetch_gazetteer_file or fetch_shapefile call has been started, every
\* fetch_table call that was started has ended.
C1_PhasesSequential ==
    /\ started["fetch_table"] > 0 =>
            /\ started["fetch_variable"] = Cardinality(q_years) * Cardinality(q_variables)
            /\ completed["fetch_variable"] = started["fetch_variable"]
    /\ started["fetch_gazetteer_file"] + started["fetch_shapefile"] > 0 =>
            /\ completed["fetch_variable"] = started["fetch_variable"]
            /\ completed["fetch_table"] = started["fetch_table"]

\* geometry fetches are running after tables and variables were fetched
C1_Witness ==
    /\ pc = "get_shapefiles"
    /\ started["fetch_variable"] > 0
    /\ started["fetch_table"] > 0
    /\ \E i \in CallIndices : calls[i].status = "running"

\* C2: in the step that ends get_variables, every result without a usable
\* label (the stub of a malformed response included) has its variable
\* recorded as invalid for its year, with a warning and without an exception,
\* and the results with a label are kept; in the step that starts the
\* fetch_table calls, no call holds a variable that is invalid for the call's
\* year, and every variable that is valid in a year is in a call for that year
\* for every for_geo selector.
C2_Step ==
    /\ (pc = "get_variables" /\ pc' = "got_variables") =>
            /\ error' = "None"
            /\ \A i \in CallIndices :
                LET r == calls[i].result
                IN  IF r.label
                    THEN /\ r \in run_variables'
                         /\ r.name \notin Range(invalid_variables'[r.year])
                    ELSE /\ r \notin run_variables'
                         /\ r.name \in Range(invalid_variables'[r.year])
                         /\ Warning("invalid_variable", r.year, r.name) \in warnings'
    /\ (pc = "got_variables" /\ pc' = "get_tables") =>
            /\ \A j \in 1..Len(calls') :
                /\ calls'[j].kind = "fetch_table"
                /\ Range(calls'[j].variables) \cap Range(invalid_variables[calls'[j].year]) = {}
            /\ \A y \in q_years, g \in 1..Len(for_geo) :
                \A v \in q_variables \ Range(invalid_variables[y]) :
                    \E j \in 1..Len(calls') :
                        /\ calls'[j].year = y
                        /\ calls'[j].for_geo = for_geo[g]
                        /\ v \in Range(calls'[j].variables)

C2_InvalidExcluded == [][C2_Step]_vars

\* a variable is invalid in one year and requested for another year
C2_Witness ==
    /\ pc = "get_tables"
    /\ \E y1 \in q_years, y2 \in q_years, j \in CallIndices :
        /\ y1 # y2
        /\ calls[j].year = y2
        /\ Range(calls[j].variables) \cap Range(invalid_variables[y1]) # {}

\* C5: a fetch_variable or fetch_table call makes at most 5 attempts.  In a
\* step in which such a call gets a response it either ends with a result at
\* the attempt it was making, or makes one more attempt, which it does only
\* while fewer than 5 were made, or ends by raising, which it does only at the
\* 5th attempt and with the exception of that attempt.  A fetch_gazetteer_file
\* or fetch_shapefile call makes one attempt and ends with its first response.
C5_Step ==
    /\ \A i \in 1..Len(calls') :
        /\ calls'[i].attempts \in 1..MaxAttempts
        /\ calls'[i].kind \notin RetriedKinds => calls'[i].attempts = 1
    /\ ResponseStep =>
        \A i \in CallIndices :
            calls'[i] # calls[i] =>
                LET before == calls[i]
                    after == calls'[i]
                IN  /\ before.status = "running"
                    /\ IF before.kind \in RetriedKinds
                       THEN \/ /\ after.status = "done"
                               /\ after.attempts = before.attempts
                               /\ after.result # Pending
                            \/ /\ after.status = "running"
                               /\ before.attempts < MaxAttempts
                               /\ after.attempts = before.attempts + 1
                            \/ /\ after.status = "raised"
                               /\ before.attempts = MaxAttempts
                               /\ after.attempts = MaxAttempts
                               /\ after.exc # "None"
                               /\ error' \in {error, after.exc}
                               /\ error' # "None"
                       ELSE /\ after.status \in {"done", "raised"}
                            /\ after.attempts = 1

C5_AttemptsBounded == [][C5_Step]_vars

\* a call raised at its 5th attempt while its sibling ended at its 2nd
C5_Witness ==
    \E i \in CallIndices, j \in CallIndices :
        /\ calls[i].kind = "fetch_table"
        /\ calls[i].status = "raised"
        /\ calls[i].attempts = MaxAttempts
        /\ calls[i].exc = "TransportError"
        /\ calls[j].status = "done"
        /\ calls[j].attempts = 2

\* C6: a non-200 response to fetch_table raises CensusAPIUnknownError (the
\* error type the specification calls RemoteDataUnavailable); a call ends
\* with it only at its 5th attempt, and once the error left the gather, run is
\* in get_tables or has raised, and it has returned no table.
C6_HardFailure ==
    /\ \A i \in CallIndices :
        (calls[i].status = "raised" /\ calls[i].exc = "CensusAPIUnknownError") =>
            /\ calls[i].kind = "fetch_table"
            /\ calls[i].attempts = MaxAttempts
            /\ error # "None"
    /\ error = "CensusAPIUnknownError" =>
            /\ pc \in {"get_tables", "raised"}
            /\ \E i \in CallIndices :
                calls[i].status = "raised" /\ calls[i].exc = "CensusAPIUnknownError"
            /\ tables = <<>>
            /\ dataframe = NoTable

\* run raised the error of a fetch_table call that was answered non-200 five times
C6_Witness ==
    /\ pc = "raised"
    /\ error = "CensusAPIUnknownError"
    /\ \E i \in CallIndices :
        calls[i].status = "raised" /\ calls[i].attempts = MaxAttempts

\* C7, as the claim states it: within a phase no call is ever cancelled, and
\* when run leaves a phase every call of the phase has ended with a result or
\* with its own failure.
C7_SiblingsComplete ==
    /\ \A i \in CallIndices : calls[i].status # "cancelled"
    /\ pc = "raised" => \A i \in CallIndices : calls[i].status \in {"done", "raised"}

\* C7, amended: a response to one call changes no other call, so an attempt
\* that fails and is retried, or a null result, leaves the siblings running;
\* a call is cancelled only in the step in which the gather raises, which
\* happens only after a call of the phase ended by raising; and the results
\* of a phase are collected only when every call ended with a result.
C7_Step ==
    /\ ResponseStep =>
        \A i \in CallIndices, j \in CallIndices :
            (calls'[i] # calls[i] /\ calls'[j] # calls[j]) => i = j
    /\ (pc' = pc /\ pc \in GatherPcs) =>
        \A i \in CallIndices : calls'[i].status # "cancelled"
    /\ (pc \in GatherPcs /\ pc' = "raised") =>
        /\ error # "None"
        /\ \E j \in CallIndices : calls[j].status = "raised" /\ calls[j].exc = error
        /\ \A i \in CallIndices :
            calls'[i].status = IF calls[i].status = "running"
                               THEN "cancelled" ELSE calls[i].status
        /\ <<tables', gazetteer_files', shapefiles', dataframe'>> =
                <<tables, gazetteer_files, shapefiles, dataframe>>
    /\ (pc \in GatherPcs /\ pc' \notin GatherPcs \cup {"raised"}) =>
        \A i \in CallIndices : calls[i].status = "done"

C7_RaiseAbortsPhase == [][C7_Step]_vars

\* a call raised and its sibling, which was still running, was cancelled
C7_Witness ==
    /\ pc = "raised"
    /\ \E i \in CallIndices, j \in CallIndices :
        /\ calls[i].status = "raised"
        /\ calls[j].status = "cancelled"
        /\ calls[j].attempts > 1

\* no geometry fetch of the run returned a geometry source
NoGeometrySource ==
    IF geometry = "points" THEN NotNone(gazetteer_files) = <<>>
    ELSE NotNone(shapefiles) = <<>>

\* a geometry fetch of the run returned None
SoftAbsence ==
    \/ \E i \in 1..Len(gazetteer_files) : gazetteer_files[i] = None
    \/ \E i \in 1..Len(shapefiles) : shapefiles[i] = None

\* C8, as the claim states it: when a geometry fetch returned None, which it
\* does with a warning, run ends with a table.
C8_SoftAbsenceContinues ==
    (Assembled /\ geometry # "None" /\ tables # <<>> /\ SoftAbsence) =>
        /\ pc = "done"
        /\ error = "None"
        /\ \E w \in warnings : w.kind \in {"gazetteer", "shapefile"}

\* C9, as the claim states it: when geometry is requested and no geometry
\* source was obtained, run ends with the table and without a geometry column.
C9_JoinSkipped ==
    (Assembled /\ geometry # "None" /\ tables # <<>> /\ NoGeometrySource) =>
        /\ pc = "done"
        /\ error = "None"
        /\ ~dataframe.geometry_column
        /\ dataframe.rows # <<>>

\* the archives the run got a path for and that cannot be read
CorruptedArchives ==
    {a \in {NotNone(shapefiles)[i].archive : i \in 1..Len(NotNone(shapefiles))} :
        cache[a] = "corrupt"}

\* C10, as the claim states it: when an archive of the batch is corrupted, a
\* warning is logged for it and the conversion still returns, so that run ends
\* with the table.
C10_CorruptedSkipped ==
    (Assembled /\ geometry = "polygons" /\ tables # <<>> /\ CorruptedArchives # {}) =>
        /\ pc = "done"
        /\ \A a \in CorruptedArchives : Warning("bad_zip", a.year, <<a.geo_code.name>>) \in warnings

(***************************************************************************)
(* Properties of get_tables (specification SpecTables).                     *)
(***************************************************************************)
\* how many of the calls for year y and selector geo hold the variable v
CallsHolding(y, geo, v) ==
    Cardinality({j \in CallIndices :
        /\ calls[j].year = y
        /\ calls[j].for_geo = geo
        /\ calls[j].table_name = parse_table_name_from_variable(v)
        /\ v \in Range(calls[j].variables)})

\* how many entries of for_geo are the selector geo
Entries(geo) == Cardinality({g \in 1..Len(for_geo) : for_geo[g] = geo})

\* C3: the fetch_table calls of get_tables partition the work.  For every
\* year, every variable that is valid in the year and every selector of
\* for_geo, the calls for the variable's table category that hold the variable
\* are as many as the selector has entries in for_geo, one when the selectors
\* are distinct; a call holds no variable twice and at most 48 variables, 50
\* fields with NAME and GEO_ID.
C3_Partition ==
    pc = "get_tables" =>
        /\ \A j \in CallIndices :
            /\ Len(calls[j].variables) <= DefaultMaxSize
            /\ Len(calls[j].variables) + 2 <= 50
            /\ Cardinality(Range(calls[j].variables)) = Len(calls[j].variables)
        /\ \A y \in q_years, g \in 1..Len(for_geo) :
            \A v \in q_variables \ Range(invalid_variables[y]) :
                CallsHolding(y, for_geo[g], v) = Entries(for_geo[g])

\* a group of more than 48 valid variables was split into two calls
C3_Witness ==
    /\ pc = "get_tables"
    /\ \E i \in CallIndices, j \in CallIndices :
        /\ i # j
        /\ calls[i].year = calls[j].year
        /\ calls[i].for_geo = calls[j].for_geo
        /\ calls[i].table_name = calls[j].table_name
        /\ Len(calls[i].variables) = DefaultMaxSize
        /\ invalid_variables[calls[i].year] # <<>>
        /\ Entries(calls[i].for_geo) = 1

(***************************************************************************)
(* Properties of chunk_variables (specification SpecChunk).                 *)
(***************************************************************************)
RECURSIVE Chain(_)
Chain(chunks) == IF chunks = <<>> THEN <<>> ELSE Head(chunks) \o Chain(Tail(chunks))

\* ceil(n / m)
Ceil(n, m) == (n + m - 1) \div m

\* C4: for a sequence of N variables and a max_size m >= 1, chunk_variables
\* yields ceil(N / m) chunks, each of size m except the last, which holds
\* between 1 and m variables, and the chunks in order make up the sequence.
C4_Chunks ==
    pc = "chunked" =>
        /\ Len(cv_chunks) = Ceil(Len(cv_variables), cv_max_size)
        /\ \A i \in 1..Len(cv_chunks) :
            /\ i < Len(cv_chunks) => Len(cv_chunks[i]) = cv_max_size
            /\ Len(cv_chunks[i]) \in 1..cv_max_size
        /\ Chain(cv_chunks) = cv_variables

\* a last chunk that is shorter than the two before it
C4_Witness ==
    /\ pc = "chunked"
    /\ Len(cv_chunks) = 3
    /\ Len(cv_chunks[1]) = 2
    /\ Len(cv_chunks[3]) = 1

(***************************************************************************)
(* Properties of the helper functions (specification SpecUtilities).        *)
(***************************************************************************)
Returned(fn) == pc = "returned" /\ fn_call.fn = fn

\* C12, as the claim states it: the hierarchy check raises
\* InvalidGeographyError for a tract in for_geo unless in_geo holds a state
\* and a county, for a tract in for_geo with a place in in_geo, and for a
\* place or a county in for_geo without a state in in_geo; it returns True
\* for every other combination.
C12_HierarchyRejections ==
    Returned("check_geo_combinations") =>
        LET for_geo_types == GeoTypes(fn_call.for_geo)
            in_geo_types == GeoTypes(fn_call.in_geo)
            rejected ==
                \/ "tract" \in for_geo_types /\ ~({"state", "county"} \subseteq in_geo_types)
                \/ "tract" \in for_geo_types /\ "place" \in in_geo_types
                \/ {"place", "county"} \cap for_geo_types # {} /\ "state" \notin in_geo_types
        IN  fn_result.value = IF rejected THEN "InvalidGeographyError" ELSE "True"

\* C13, as the claim states it: check_years returns True exactly for the
\* non-empty collections whose years y all satisfy 2005 <= y < current year;
\* a year before 2005 raises InvalidYearError with the message 'before 2005',
\* and otherwise a year from the current year on raises InvalidYearError.
C13_YearWindow ==
    Returned("check_years") =>
        LET ys == fn_call.years
        IN  /\ (ys # {} /\ \A y \in ys : 2005 <= y /\ y < fn_call.current_year) <=>
                    fn_result = CheckPassed
            /\ (\E y \in ys : y < 2005) =>
                    /\ fn_result.exc = "InvalidYearError"
                    /\ fn_result.message = "before 2005"
            /\ (\E y \in ys : y >= fn_call.current_year) =>
                    fn_result.exc = "InvalidYearError"

\* C14, as the claim states it: check_geo_estimates raises
\* InvalidGeographyError when estimate is 1 or 3 and for_geo holds a tract,
\* and returns True otherwise.
C14_TractEstimates ==
    Returned("check_geo_estimates") =>
        IF fn_call.estimate \in {1, 3} /\ "tract" \in GeoTypes(fn_call.for_geo)
        THEN fn_result.exc = "InvalidGeographyError"
        ELSE fn_result = CheckPassed

\* the value has a ':' in it
HasColon(value) == \E i \in 1..Len(value) : value[i] = ":"

C19_CongressPairs ==
    Returned("calculate_congress_number") =>
        /\ fn_call.year \in {2013, 2014} => fn_result.value = 113
        /\ fn_call.year \in {2018, 2019} => fn_result.value = 116

\* the congress numbers the unit test lists for 2010..2019
TestedCongressNumbers ==
    [y \in 2010..2019 |->
        IF y <= 2011 THEN 112 ELSE IF y <= 2013 THEN 113 ELSE IF y <= 2015 THEN 114
        ELSE IF y <= 2017 THEN 115 ELSE 116]

\* C19, amended: an even year and the odd year after it map to the same
\* number: 2012 and 2013 to 113, 2014 (and 2015) to 114, 2018 and 2019 to 116.
C19_CongressNumbers ==
    Returned("calculate_congress_number") =>
        /\ fn_call.year \in {2012, 2013} => fn_result.value = 113
        /\ fn_call.year \in {2014, 2015} => fn_result.value = 114
        /\ fn_call.year \in {2018, 2019} => fn_result.value = 116
        /\ fn_call.year \in DOMAIN TestedCongressNumbers =>
                fn_result.value = TestedCongressNumbers[fn_call.year]

\* 2014 was mapped to 114
C19_Witness ==
    /\ Returned("calculate_congress_number")
    /\ fn_call.year = 2014
    /\ fn_result.value = 114

\* the characters of a code before its first digit, all of them when it has none
TableCode(variable) ==
    SubSeq(variable, 1,
           Cardinality({i \in 1..Len(variable) :
                            \A j \in 1..i : ~IsDigit(variable[j])}))

\* C20, as the claim states it: the result depends only on the characters
\* before the first digit: B and C give detail, CP gives cprofile, DP gives
\* profile, S gives subject, and every other code raises InvalidVariableError.
C20_TableNames ==
    Returned("parse_table_name_from_variable") =>
        LET table_code == TableCode(fn_call.variable)
        IN  fn_result.value =
                IF table_code \in {<<"B">>, <<"C">>} THEN "detail"
                ELSE IF table_code = <<"C", "P">> THEN "cprofile"
                ELSE IF table_code = <<"D", "P">> THEN "profile"
                ELSE IF table_code = <<"S">> THEN "subject"
                ELSE "InvalidVariableError"

(***************************************************************************)
(* Properties of the constructor's validation (specification Spec)          *)
(***************************************************************************)
\* the errors that tell of an invalid configuration
ConfigurationErrors == {"InvalidVariableError", "InvalidYearError", "InvalidGeographyError"}

\* C11: every configuration error is raised by the constructor, so that a
\* Query that was constructed never fails with one of them while it runs
C11_ConfigurationErrorsAtConstruction == error \notin ConfigurationErrors

(***************************************************************************)
(* Properties of assemble_dataframe (specification SpecAssemble)            *)
(***************************************************************************)
\* the rows of the table run returned
RowIndices == 1..Len(dataframe.rows)

\* the places of the fetched tables: table i, variable j
Fetched == UNION {{<<i, j>> : j \in 1..Len(tables[i].variables)} : i \in 1..Len(tables)}

\* the cell of a place and of a row
CellOf(p) == <<tables[p[1]].geo_type, tables[p[1]].year, tables[p[1]].variables[p[2]]>>

CellOfRow(r) == <<r.geo_type, r.year, r.variable>>

\* the raw values the tables have for the cell of a row
RawOfRow(r) == {tables[p[1]].values[p[2]] : p \in {q \in Fetched : CellOf(q) = CellOfRow(r)}}

IsSentinel(raw) == raw # None /\ raw.number \in AnnotationValues

\* C16: in the finalized table no value is an annotation sentinel; a row
\* whose raw value is a sentinel has a null value and the annotation of that
\* sentinel, every other row keeps its value and has a null annotation
C16_SentinelsNulled ==
    pc = "done" =>
        \A k \in RowIndices :
            /\ dataframe.rows[k].value \notin {Float(n) : n \in AnnotationValues}
            /\ \A raw \in RawOfRow(dataframe.rows[k]) :
                    IF IsSentinel(raw)
                    THEN /\ dataframe.rows[k].value = NaN
                         /\ dataframe.rows[k].annotation = Annotation(raw.number)
                    ELSE /\ dataframe.rows[k].value = astype_float(raw)
                         /\ dataframe.rows[k].annotation = NaN

\* a table was assembled that has a row of a sentinel and a row of an estimate
C16_Witness ==
    /\ pc = "done"
    /\ \E k \in RowIndices : \E raw \in RawOfRow(dataframe.rows[k]) : IsSentinel(raw)
    /\ \E k \in RowIndices : dataframe.rows[k].value = Float(SomeEstimate)

\* whether the variables have a record for the cell of a row
HasRecord(r) == \E v \in run_variables : v.name = r.variable /\ v.year = r.year

\* C17: every (geographic unit, variable, year) cell of the fetched tables
\* is in exactly one row of the assembled table, every row is of a fetched
\* cell, and the label of a row is null exactly when its variable has no
\* record for its year
C17_CellsOnce ==
    pc = "done" =>
        /\ \A p \in Fetched :
                Cardinality({k \in RowIndices : CellOfRow(dataframe.rows[k]) = CellOf(p)}) = 1
        /\ \A k \in RowIndices :
                /\ \E p \in Fetched : CellOf(p) = CellOfRow(dataframe.rows[k])
                /\ dataframe.rows[k].label = HasRecord(dataframe.rows[k])

\* a table was assembled from tables that hold a cell twice and a cell
\* without a record
C17_Witness ==
    /\ pc = "done"
    /\ \E p \in Fetched, q \in Fetched : p # q /\ CellOf(p) = CellOf(q)
    /\ \E k \in RowIndices : ~HasRecord(dataframe.rows[k])

(***************************************************************************)
(* Properties of the assemble_dataframe of __init__.py (specification       *)
(* SpecLegacy)                                                              *)
(***************************************************************************)
\* the rows of the series of row k with an earlier year and a value
PriorValid(k) ==
    {j \in RowIndices : /\ dataframe.rows[j].geo_type = dataframe.rows[k].geo_type
                        /\ dataframe.rows[j].variable = dataframe.rows[k].variable
                        /\ dataframe.rows[j].year < dataframe.rows[k].year
                        /\ dataframe.rows[j].value # NaN}

\* the most recent of them
LastPriorValid(k) ==
    CHOOSE j \in PriorValid(k) :
        \A m \in PriorValid(k) : dataframe.rows[m].year <= dataframe.rows[j].year

\* C15: percent_change and difference of a row with a value are computed
\* against the most recent earlier year of its (GEO_ID, variable) series
\* that has a value, skipping annotated and missing years; both are null
\* for the first year with a value
C15_ChangesSkipGaps ==
    pc = "done" =>
        \A k \in RowIndices :
            dataframe.rows[k].value # NaN =>
                IF PriorValid(k) = {}
                THEN /\ dataframe.rows[k].percent_change = NaN
                     /\ dataframe.rows[k].difference = NaN
                ELSE /\ dataframe.rows[k].percent_change =
                            PercentChange(dataframe.rows[k].value.number,
                                          dataframe.rows[LastPriorValid(k)].value.number)
                     /\ dataframe.rows[k].difference =
                            Float(dataframe.rows[k].value.number
                                  - dataframe.rows[LastPriorValid(k)].value.number)

\* C17, for the Query of __init__.py: every cell of the fetched tables is in
\* exactly one row of the assembled table, a cell without a label included
C17_CellsKept ==
    pc = "done" =>
        \A p \in Fetched :
            Cardinality({k \in RowIndices : CellOfRow(dataframe.rows[k]) = CellOf(p)}) = 1

(***************************************************************************)
(* Properties of the geometry helpers and of clear_cache (specification     *)
(* SpecUtilities)                                                           *)
(***************************************************************************)
\* a polygon with the z ordinate dropped from every ring, the same rings kept
Flat(polygon) ==
    Polygon(DropZ(polygon.exterior), Map(DropZ, polygon.interiors))

\* C21: coerce_polygon_to_multipolygon returns a multipolygon unchanged and
\* a polygon as a one-element multipolygon, and is idempotent;
\* flatten_geometry returns None and a 2D multipolygon unchanged, drops the z
\* ordinate from every ring (exterior and interior) of every polygon of a 3D
\* multipolygon, and is idempotent
C21_GeometryHelpers ==
    /\ Returned("coerce_polygon_to_multipolygon") =>
            /\ fn_result.value = IF fn_call.shape.tag = "MultiPolygon"
                                 THEN fn_call.shape
                                 ELSE MultiPolygon(<<fn_call.shape>>)
            /\ fn_result.again = fn_result.value
    /\ Returned("flatten_geometry") =>
            /\ fn_result.value =
                    IF fn_call.multipolygon = None THEN None
                    ELSE MultiPolygon(Map(Flat, fn_call.multipolygon.geoms))
            /\ fn_result.again = fn_result.value

\* C22: clear_cache returns True when the directory existed and was removed,
\* and False without raising when it did not exist
C22_ClearCache ==
    Returned("clear_cache") =>
        /\ fn_result.exc = "None"
        /\ fn_result.value = fn_call.exists
        /\ ~fn_result.exists

(***************************************************************************)
(* Properties of the sessions of a run (specification Spec)                *)
(***************************************************************************)
\* C23: one session is shared by all fetch calls of a run: at most one
\* session is opened per run, exactly one once calls were started, a call
\* is in flight only while the session is open, and the session is closed
\* when the run has ended, normally or with an error
C23_OneSessionPerRun ==
    /\ sessions_opened <= 1
    /\ (\E kind \in DOMAIN started : started[kind] > 0) => sessions_opened = 1
    /\ (\E i \in 1..Len(calls) : calls[i].status = "running") => session_open
    /\ pc \in {"done", "raised"} => ~session_open

(***************************************************************************)
(* The order of the rows of convert_tables_to_dataframe when a geography    *)
(* type has several units (specification SpecSort).  A table holds a row    *)
(* per unit with its NAME and GEO_ID; the names are whatever the API sent   *)
(* for the unit in that year.                                               *)
(***************************************************************************)
MaxUnits == 2

SortYears == <<2011, 2012, 2013>>

UnitNames == {<<"A">>, <<"B">>}

\* a table of a response with a row per unit
UnitTable(year, geo_type, vs, units) ==
    [tag |-> "table", year |-> year, geo_type |-> geo_type, variables |-> vs,
     units |-> units]

\* subset.melt(id_vars): for every variable column, one row per row of the
\* table, the id columns kept
MeltUnits(t) ==
    FlatMap(LAMBDA j :
                Map(LAMBDA u : [geo_type |-> t.geo_type, variable |-> t.variables[j],
                                NAME |-> u.NAME, GEO_ID |-> u.GEO_ID, year |-> t.year,
                                value |-> u.values[j]],
                    t.units),
            Tuple([j \in 1..Len(t.variables) |-> j]))

\* the order of sort_values(by=['geo_type', 'variable', 'NAME', 'year'])
NameRowLess(a, b) ==
    IF a.geo_type # b.geo_type THEN GeoTypeRank(a.geo_type) < GeoTypeRank(b.geo_type)
    ELSE IF a.variable # b.variable THEN StrLess(a.variable, b.variable)
    ELSE IF a.NAME # b.NAME THEN StrLess(a.NAME, b.NAME)
    ELSE a.year < b.year

\* sort_values: rows with equal keys keep their order
sort_values_by_name(rows) ==
    LET n == Len(rows)
        Before(j, k) ==
            NameRowLess(rows[j], rows[k]) \/ (~NameRowLess(rows[k], rows[j]) /\ j < k)
        rank == [k \in 1..n |-> Cardinality({j \in 1..n : Before(j, k)})]
    IN  Tuple([i \in 1..n |-> rows[CHOOSE k \in 1..n : rank[k] = i - 1]])

\* convert_tables_to_dataframe on tables with a row per unit
convert_unit_tables_to_dataframe(ts) ==
    Map(LAMBDA r : [r EXCEPT !.value = astype_float(@)],
        sort_values_by_name(FlatMap(MeltUnits, ts)))

\* the tables of the years, in call order, the units named as name says
UnitTablesOf(name) ==
    Map(LAMBDA y :
            UnitTable(y, "county", <<VarCode(<<"B">>, 1)>>,
                      Tuple([u \in 1..MaxUnits |->
                                [NAME |-> name[u, y], GEO_ID |-> u,
                                 values |-> <<Raw(SomeEstimate)>>]])),
        SortYears)

InitSort ==
    /\ q_years = Range(SortYears)
    /\ q_variables = {VarCode(<<"B">>, 1)}
    /\ for_geo = <<County>>
    /\ in_geo = <<State08>>
    /\ geometry = "None"
    /\ invalid_variables = [y \in q_years |-> <<>>]
    /\ cache = [a \in {} |-> "absent"]
    /\ pc = "gathered"
    /\ calls = <<>>
    /\ error = "None"
    /\ run_variables = <<>>
    /\ \E name \in [(1..MaxUnits) \X Range(SortYears) -> UnitNames] :
            tables = UnitTablesOf(name)
    /\ gazetteer_files = <<>>
    /\ shapefiles = <<>>
    /\ dataframe = NoTable
    /\ warnings = {}
    /\ started = [k \in Kinds |-> 0]
    /\ completed = [k \in Kinds |-> 0]
    /\ IdleChunk

\* assemble_dataframe up to its first step: convert_tables_to_dataframe
ConvertTablesToDataframe ==
    /\ pc = "gathered"
    /\ dataframe' = [error |-> "None", rows |-> convert_unit_tables_to_dataframe(tables),
                     geometry_column |-> FALSE, skipped |-> {}]
    /\ pc' = "converted"
    /\ UNCHANGED <<queryVars, chunkVars, utilVars, sessionVars, invalid_variables, cache,
                   calls, error, run_variables, tables, gazetteer_files, shapefiles,
                   warnings, started, completed>>

SpecSort == InitSort /\ [][ConvertTablesToDataframe]_vars

\* the rows of one unit and variable
SameSeries(a, b) == a.GEO_ID = b.GEO_ID /\ a.variable = b.variable

\* C24: after convert_tables_to_dataframe the rows of every (GEO_ID,
\* variable) series are adjacent and ascending in year, whatever the names
\* of the units are
C24_SeriesAdjacentAscending ==
    pc = "converted" =>
        \A i, j \in 1..Len(dataframe.rows) :
            (i < j /\ SameSeries(dataframe.rows[i], dataframe.rows[j])) =>
                /\ dataframe.rows[i].year < dataframe.rows[j].year
                /\ \A k \in i..j : SameSeries(dataframe.rows[i], dataframe.rows[k])

(***************************************************************************)
(* The polygon path of assemble_dataframe when an archive holds a record    *)
(* per unit (specification SpecDedup).  cache maps an archive to the         *)
(* records of its shapefile, in the order of the file.                      *)
(***************************************************************************)
\* the identifier of a unit, as GEO_ID and AFFGEOID hold it
GeoId(u) == [tag |-> "geo_id", unit |-> u]

\* the shapes of the records: a polygon, and a 3D multipolygon
Shapes ==
    {Polygon(<<<<0, 0>>, <<1, 0>>, <<1, 1>>>>, <<>>),
     MultiPolygon(<<Polygon(<<<<0, 0, 5>>, <<2, 0, 5>>, <<2, 2, 5>>>>, <<>>)>>)}

\* load_geodataframe: the records of the archive, the year of its name added
load_geodataframe(filepath) ==
    Map(LAMBDA rec : [AFFGEOID |-> rec.AFFGEOID, geometry |-> rec.geometry,
                      year |-> filepath.archive.year],
        cache[filepath.archive])

\* convert_shapefiles_to_dataframe: the records of the archives of the paths
\* that are not None, concatenated, their geometry coerced and flattened
convert_unit_shapefiles_to_dataframe(paths) ==
    Map(LAMBDA rec : [AFFGEOID |-> rec.AFFGEOID, year |-> rec.year,
                      geometry |-> flatten_geometry(
                                       coerce_polygon_to_multipolygon(rec.geometry))],
        FlatMap(load_geodataframe, NotNone(paths)))

\* tables_dataframe.merge(right=variables_dataframe, how='left',
\* on=['variable', 'year'])
merge_unit_variables(rows, variables_dataframe) ==
    FlatMap(LAMBDA r :
                LET matches == {v \in variables_dataframe :
                                   v.variable = r.variable /\ v.year = r.year}
                    Labelled(label) ==
                        [geo_type |-> r.geo_type, variable |-> r.variable, NAME |-> r.NAME,
                         GEO_ID |-> r.GEO_ID, year |-> r.year, value |-> r.value,
                         label |-> label]
                IN  IF matches = {} THEN <<Labelled(FALSE)>>
                    ELSE Map(LAMBDA v : Labelled(v.label), SeqOf(matches)),
            rows)

\* dataframe.merge(right=annotations_dataframe, how='left', on=['value'])
merge_unit_annotations(rows) ==
    FlatMap(LAMBDA r :
                LET matches == {a \in annotations_dataframe : a.value = r.value}
                    Annotated(annotation) ==
                        [geo_type |-> r.geo_type, variable |-> r.variable, NAME |-> r.NAME,
                         GEO_ID |-> r.GEO_ID, year |-> r.year, value |-> r.value,
                         label |-> r.label, annotation |-> annotation]
                IN  IF matches = {} THEN <<Annotated(NaN)>>
                    ELSE Map(LAMBDA a : Annotated(a.annotation), SeqOf(matches)),
            rows)

\* dataframe.merge(right=geometry_dataframe, how='left',
\* left_on=['GEO_ID', 'year'], right_on=[right_geo_id_field, 'year']): a row
\* per matching record, or the row with null geometry when there is none
merge_unit_geometry(rows, records) ==
    FlatMap(LAMBDA r :
                LET matches == SelectSeq(records,
                                         LAMBDA rec : /\ rec.AFFGEOID = GeoId(r.GEO_ID)
                                                      /\ rec.year = r.year)
                    Located(affgeoid, shape) ==
                        [geo_type |-> r.geo_type, variable |-> r.variable, NAME |-> r.NAME,
                         GEO_ID |-> r.GEO_ID, year |-> r.year, value |-> r.value,
                         label |-> r.label, annotation |-> r.annotation,
                         AFFGEOID |-> affgeoid, geometry |-> shape]
                IN  IF matches = <<>> THEN <<Located(NaN, None)>>
                    ELSE Map(LAMBDA rec : Located(rec.AFFGEOID, rec.geometry), matches),
            rows)

\* the rows before finalize_dataframe
MergedUnits(vs, ts, paths) ==
    merge_unit_geometry(
        merge_unit_annotations(
            merge_unit_variables(convert_unit_tables_to_dataframe(ts),
                                 convert_variables_to_dataframe(vs))),
        convert_unit_shapefiles_to_dataframe(paths))

\* rename(columns=names)[name_order]: the columns of the public schema are
\* kept, which the identifier field of the shapefiles is not among
public_schema(rows) ==
    Map(LAMBDA r : [c \in (DOMAIN r) \ {"AFFGEOID"} |-> r[c]], rows)

\* assemble_dataframe of a polygons query
assemble_unit_dataframe(vs, ts, paths) ==
    public_schema(finalize_dataframe(MergedUnits(vs, ts, paths)))

\* the units a for_geo selector of type county selects
County001 == Geo("county", "001")

County005 == Geo("county", "005")

UnitsOf(geo) ==
    IF geo = County001 THEN <<1>> ELSE IF geo = County005 THEN <<2>>
    ELSE Tuple([u \in 1..MaxUnits |-> u])

\* the table of a selector
UnitTableOf(geo) ==
    UnitTable(ShapefileStartYear, geo.type, <<VarCode(<<"B">>, 1)>>,
              Map(LAMBDA u : [NAME |-> <<"A">>, GEO_ID |-> u,
                              values |-> <<Raw(SomeEstimate)>>],
                  UnitsOf(geo)))

MaxRecords == 3

\* the contents an archive can have
ArchiveContents ==
    UNION {[1..n -> [AFFGEOID : {GeoId(u) : u \in 1..MaxUnits}, geometry : Shapes]] :
            n \in 0..MaxRecords}

CountyArchive == ArchiveName(ShapefileStartYear, County, <<State08>>, "None")

\* the results of the phases of a polygons query for counties: a table and
\* a path per selector, every path that of the one archive of the year
InitDedup ==
    /\ q_years = {ShapefileStartYear}
    /\ q_variables = {VarCode(<<"B">>, 1)}
    /\ for_geo \in {<<County>>, <<County, County>>, <<County001, County005>>}
    /\ in_geo = <<State08>>
    /\ geometry = "polygons"
    /\ invalid_variables = [y \in q_years |-> <<>>]
    /\ cache \in [{CountyArchive} -> ArchiveContents]
    /\ pc = "gathered"
    /\ calls = <<>>
    /\ error = "None"
    /\ run_variables = {[tag |-> "variable", name |-> VarCode(<<"B">>, 1),
                         year |-> ShapefileStartYear, label |-> TRUE, stub |-> FALSE]}
    /\ tables = Map(UnitTableOf, for_geo)
    /\ gazetteer_files = <<>>
    /\ shapefiles = Map(LAMBDA geo : [tag |-> "path", archive |-> CountyArchive], for_geo)
    /\ dataframe = NoTable
    /\ warnings = {}
    /\ started = [k \in Kinds |-> 0]
    /\ completed = [k \in Kinds |-> 0]
    /\ IdleChunk

\* run after its phases: assemble_dataframe
AssembleUnitDataframe ==
    /\ pc = "gathered"
    /\ dataframe' = [error |-> "None",
                     rows |-> assemble_unit_dataframe(run_variables, tables, shapefiles),
                     geometry_column |-> TRUE, skipped |-> {}]
    /\ pc' = "done"
    /\ UNCHANGED <<queryVars, chunkVars, utilVars, sessionVars, invalid_variables, cache,
                   calls, error, run_variables, tables, gazetteer_files, shapefiles,
                   warnings, started, completed>>

SpecDedup == InitDedup /\ [][AssembleUnitDataframe]_vars

\* the observation of a row
Observation(r) == <<r.GEO_ID, r.variable, r.year>>

\* C25: the finalized table has no two rows that agree on all non-geometry
\* columns, whatever records the archive repeats and however often it was
\* fetched, and every (GEO_ID, variable, year) of the rows before the
\* deduplication is in a row after it
C25_NoDuplicatesNoLoss ==
    pc = "done" =>
        /\ \A i, j \in 1..Len(dataframe.rows) :
                i < j => NonGeometry(dataframe.rows[i]) # NonGeometry(dataframe.rows[j])
        /\ LET before == MergedUnits(run_variables, tables, shapefiles)
           IN  \A i \in 1..Len(before) :
                   \E k \in 1..Len(dataframe.rows) :
                       Observation(dataframe.rows[k]) = Observation(before[i])

\* a run whose archive repeats a record and was fetched for two selectors,
\* so that rows were dropped
C25_Witness ==
    /\ pc = "done"
    /\ Len(shapefiles) = 2
    /\ \E i, j \in 1..Len(cache[CountyArchive]) :
            i < j /\ cache[CountyArchive][i] = cache[CountyArchive][j]
    /\ Len(dataframe.rows) < Len(MergedUnits(run_variables, tables, shapefiles))
    /\ Len(dataframe.rows) >= 2

(***************************************************************************)
(* Properties of the shapefile cache (specification Spec)                  *)
(***************************************************************************)
PathOf(call) == [tag |-> "path", archive |-> CachedFilepath(call)]

\* call i gets its response in this step
Responded(i) == calls[i].status = "running" /\ calls'[i].status # "running"

\* C26: fetch_shapefile and the cache: a call whose cache file exists makes
\* no request, leaves the cache as it is and returns the path of the file; a
\* call whose file is absent and whose response is not 200 writes nothing
\* and returns null; the cache changes only when a call of fetch_shapefile
\* returns the path of the file it wrote from its 200 response
C26_ShapefileCache ==
    [][/\ (pc = "got_tables" /\ pc' = "get_shapefiles") =>
            /\ cache' = cache
            /\ \A i \in 1..Len(calls') :
                    IF cache[CachedFilepath(calls'[i])] # "absent"
                    THEN calls'[i].status = "done" /\ calls'[i].result = PathOf(calls'[i])
                    ELSE calls'[i].status = "running"
       /\ (pc = "get_shapefiles" /\ pc' = "get_shapefiles") =>
            \A i \in 1..Len(calls) :
                /\ calls[i].status # "running" => calls'[i] = calls[i]
                /\ (Responded(i) /\ calls'[i].result # PathOf(calls[i])) =>
                        /\ cache' = cache
                        /\ calls'[i].status = "done" => calls'[i].result = None
       /\ \A a \in DOMAIN cache :
            cache'[a] # cache[a] =>
                /\ pc = "get_shapefiles"
                /\ cache'[a] = "ok"
                /\ \E i \in 1..Len(calls) :
                        /\ Responded(i)
                        /\ CachedFilepath(calls[i]) = a
                        /\ calls'[i].status = "done"
                        /\ calls'[i].result = PathOf(calls[i])
      ]_vars

\* one call found its file in the cache and ended with its path, another
\* got a response other than 200 and left its file absent
C26_Witness ==
    /\ pc = "get_shapefiles"
    /\ \E i, j \in 1..Len(calls) :
            /\ calls[i].status = "done"
            /\ calls[i].result = PathOf(calls[i])
            /\ cache[CachedFilepath(calls[i])] = "corrupt"
            /\ calls[j].status = "done"
            /\ calls[j].result = None
            /\ cache[CachedFilepath(calls[j])] = "absent"

(***************************************************************************)
(* Concurrent calls of fetch_shapefile for one archive (specification       *)
(* SpecCache).  The calls of one process are coroutines of one event loop:  *)
(* they are all started before a response is handled, and a coroutine runs  *)
(* from one await to the next without another of its loop in between.  The  *)
(* calls of different processes (two queries running at once) interleave    *)
(* at every access to the file.  open(path, 'wb') creates the file or       *)
(* truncates it; its bytes are complete when the with block has closed it.  *)
(***************************************************************************)
MaxFetchers == 2

Processes == {1, 2}

\* a call of fetch_shapefile in a process; read is the state of the file a
\* returned path referred to when the call returned
CacheCall(process) ==
    [kind |-> "fetch_shapefile", process |-> process, status |-> "start",
     result |-> Pending, read |-> "None"]

InitCache ==
    /\ q_years = {ShapefileStartYear}
    /\ q_variables = {VarCode(<<"B">>, 1)}
    /\ for_geo = <<County>>
    /\ in_geo = <<State08>>
    /\ geometry = "polygons"
    /\ invalid_variables = [y \in q_years |-> <<>>]
    /\ cache \in [{CountyArchive} -> {"absent", "ok"}]
    /\ pc = "get_shapefiles"
    /\ calls \in [1..MaxFetchers -> {CacheCall(p) : p \in Processes}]
    /\ error = "None"
    /\ run_variables = {}
    /\ tables = <<>>
    /\ gazetteer_files = <<>>
    /\ shapefiles = <<>>
    /\ dataframe = NoTable
    /\ warnings = {}
    /\ started = [k \in Kinds |-> 0]
    /\ completed = [k \in Kinds |-> 0]
    /\ IdleChunk

\* no other coroutine of the loop of call i is between two of its awaits
LoopFree(i) ==
    \A j \in 1..Len(calls) :
        (j # i /\ calls[j].process = calls[i].process) =>
            calls[j].status \notin {"opened", "written"}

\* the tasks of the loop of call i have all run to their first await
LoopStarted(i) ==
    \A j \in 1..Len(calls) :
        calls[j].process = calls[i].process => calls[j].status # "start"

CacheSteps(i, call, file) ==
    /\ calls' = [calls EXCEPT ![i] = call]
    /\ cache' = [cache EXCEPT ![CountyArchive] = file]
    /\ UNCHANGED <<queryVars, chunkVars, utilVars, sessionVars, invalid_variables, pc, error,
                   run_variables, tables, gazetteer_files, shapefiles, dataframe,
                   warnings, started, completed>>

CountyPath == [tag |-> "path", archive |-> CountyArchive]

\* fetch_shapefile up to its request: the path at once when the file exists
FetchShapefileStart ==
    \E i \in 1..Len(calls) :
        /\ calls[i].status = "start"
        /\ LoopFree(i)
        /\ CacheSteps(i,
                      IF cache[CountyArchive] # "absent"
                      THEN [calls[i] EXCEPT !.status = "done", !.result = CountyPath,
                                            !.read = cache[CountyArchive]]
                      ELSE [calls[i] EXCEPT !.status = "running"],
                      cache[CountyArchive])

\* the response: None when it is not 200, else the file is opened for writing
FetchShapefileResponse ==
    \E i \in 1..Len(calls), response \in Responses :
        /\ calls[i].status = "running"
        /\ LoopStarted(i)
        /\ LoopFree(i)
        /\ CacheSteps(i,
                      IF response = "exception"
                      THEN [calls[i] EXCEPT !.status = "raised"]
                      ELSE IF response = "non_200"
                      THEN [calls[i] EXCEPT !.status = "done", !.result = None]
                      ELSE [calls[i] EXCEPT !.status = "opened"],
                      IF response = "200" THEN "corrupt" ELSE cache[CountyArchive])

\* cached_file.write(response.content) and the end of the with block
FetchShapefileWrite ==
    \E i \in 1..Len(calls) :
        /\ calls[i].status = "opened"
        /\ CacheSteps(i, [calls[i] EXCEPT !.status = "written"], "ok")

\* return cached_filepath
FetchShapefileReturn ==
    \E i \in 1..Len(calls) :
        /\ calls[i].status = "written"
        /\ CacheSteps(i,
                      [calls[i] EXCEPT !.status = "done", !.result = CountyPath,
                                        !.read = cache[CountyArchive]],
                      cache[CountyArchive])

NextCache ==
    \/ FetchShapefileStart
    \/ FetchShapefileResponse
    \/ FetchShapefileWrite
    \/ FetchShapefileReturn

SpecCache == InitCache /\ [][NextCache]_vars

\* C27: in every interleaving of concurrent fetches of one archive, of one
\* run or of two queries, a returned path refers to a file that holds the
\* complete bytes of the archive when it is returned, and when all calls
\* have ended the cache is as after a single fetch: the complete file, or
\* no file when no call got a 200 response
C27_RaceBenign ==
    /\ \A i \in 1..Len(calls) :
            (calls[i].status = "done" /\ calls[i].result = CountyPath) =>
                calls[i].read = "ok"
    /\ (\A i \in 1..Len(calls) : calls[i].status \in {"done", "raised"}) =>
            cache[CountyArchive] =
                IF \E i \in 1..Len(calls) : calls[i].result = CountyPath
                THEN "ok" ELSE "absent"

(***************************************************************************)
(* The identifier field of the shapefiles (specification SpecAffgeoid).     *)
(* cache maps an archive to the name of the identifier field of its         *)
(* shapefile and to its records; a batch is the archives of the for_geo     *)
(* types of one year.                                                       *)
(***************************************************************************)
known_field_names == {"AFFGEOID", "AFFGEOID10"}

\* identify_affgeoid_field: (known_field_names & set(fields)).pop() returns
\* an arbitrary element of the intersection, which the order of the set
\* decides, and that order follows the hash seed of the process; the
\* values it can return.  KeyError when the set is empty.
identify_affgeoid_field(fields) == known_field_names \cap fields

\* load_geodataframe: the records of the archive under its field name
load_named_geodataframe(filepath) ==
    Map(LAMBDA rec : [field |-> cache[filepath.archive].field, id |-> rec.id,
                      geometry |-> rec.geometry, year |-> filepath.archive.year],
        cache[filepath.archive].records)

\* pd.concat(subsets, ignore_index=True, sort=True)
ConcatNamed(paths) == FlatMap(load_named_geodataframe, NotNone(paths))

\* the identifier columns of the concatenated dataframe
IdentifierColumns(paths) ==
    {ConcatNamed(paths)[i].field : i \in 1..Len(ConcatNamed(paths))}

\* convert_shapefiles_to_dataframe once the field is identified: the columns
\* [affgeoid_field, 'year', 'geometry'] are kept; a record of an archive
\* with another field name has a null in the column of this one
convert_named_shapefiles_to_dataframe(paths, affgeoid_field) ==
    Map(LAMBDA rec : [AFFGEOID |-> IF rec.field = affgeoid_field THEN rec.id ELSE NaN,
                      year |-> rec.year,
                      geometry |-> flatten_geometry(
                                       coerce_polygon_to_multipolygon(rec.geometry))],
        ConcatNamed(paths))

\* assemble_dataframe of a polygons query with the field identified
assemble_named_dataframe(vs, ts, paths, affgeoid_field) ==
    public_schema(finalize_dataframe(
        merge_unit_geometry(
            merge_unit_annotations(
                merge_unit_variables(convert_unit_tables_to_dataframe(ts),
                                     convert_variables_to_dataframe(vs))),
            convert_named_shapefiles_to_dataframe(paths, affgeoid_field))))

\* the unit of a geography type: its identifier holds the type
NamedUnitOf(geo) == IF geo = County THEN 1 ELSE 2

NamedTableOf(geo) ==
    UnitTable(ShapefileStartYear, geo.type, <<VarCode(<<"B">>, 1)>>,
              <<[NAME |-> <<"A">>, GEO_ID |-> NamedUnitOf(geo),
                 values |-> <<Raw(SomeEstimate)>>]>>)

NamedArchive(geo) == ArchiveName(ShapefileStartYear, geo, <<State08>>, "None")

\* the contents an archive of a geography type can have: one of the field
\* names, and one or two records of the unit of the type
NamedContents(geo) ==
    {[field |-> f, records |-> recs] :
        f \in known_field_names,
        recs \in UNION {[1..n -> [id : {GeoId(NamedUnitOf(geo))}, geometry : Shapes]] :
                          n \in 1..2}}

InitAffgeoid ==
    /\ q_years = {ShapefileStartYear}
    /\ q_variables = {VarCode(<<"B">>, 1)}
    /\ for_geo \in {<<County>>, <<County, Us>>}
    /\ in_geo = <<State08>>
    /\ geometry = "polygons"
    /\ invalid_variables = [y \in q_years |-> <<>>]
    /\ \E contents \in [Range(for_geo) -> NamedContents(County) \cup NamedContents(Us)] :
            /\ \A geo \in Range(for_geo) : contents[geo] \in NamedContents(geo)
            /\ cache = [a \in {NamedArchive(geo) : geo \in Range(for_geo)} |->
                           contents[CHOOSE geo \in Range(for_geo) : NamedArchive(geo) = a]]
    /\ pc = "gathered"
    /\ calls = <<>>
    /\ error = "None"
    /\ run_variables = {[tag |-> "variable", name |-> VarCode(<<"B">>, 1),
                         year |-> ShapefileStartYear, label |-> TRUE, stub |-> FALSE]}
    /\ tables = Map(NamedTableOf, for_geo)
    /\ gazetteer_files = <<>>
    /\ shapefiles = Map(LAMBDA geo : [tag |-> "path", archive |-> NamedArchive(geo)], for_geo)
    /\ dataframe = NoTable
    /\ warnings = {}
    /\ started = [k \in Kinds |-> 0]
    /\ completed = [k \in Kinds |-> 0]
    /\ IdleChunk

\* run after its phases: assemble_dataframe, with the field that
\* identify_affgeoid_field returns in this run
AssembleNamedDataframe ==
    /\ pc = "gathered"
    /\ \E affgeoid_field \in identify_affgeoid_field(IdentifierColumns(shapefiles)) :
            dataframe' = [error |-> "None",
                          rows |-> assemble_named_dataframe(run_variables, tables,
                                                            shapefiles, affgeoid_field),
                          geometry_column |-> TRUE, skipped |-> {},
                          affgeoid_field |-> affgeoid_field]
    /\ pc' = "done"
    /\ UNCHANGED <<queryVars, chunkVars, utilVars, sessionVars, invalid_variables, cache,
                   calls, error, run_variables, tables, gazetteer_files, shapefiles,
                   warnings, started, completed>>

SpecAffgeoid == InitAffgeoid /\ [][AssembleNamedDataframe]_vars

\* C28: on the polygon path every boundary record keeps a usable join key:
\* the value of its identifier field, AFFGEOID or AFFGEOID10, is kept by
\* convert_shapefiles_to_dataframe and used for the join, so that every row
\* of a unit with a record gets a geometry, also when the archives of a
\* batch use different field names; and the batch decides the field chosen,
\* the same on every run
C28_IdentifierKept ==
    pc = "done" =>
        LET records == convert_named_shapefiles_to_dataframe(shapefiles,
                                                             dataframe.affgeoid_field)
        IN  /\ \A i \in 1..Len(records) : records[i].AFFGEOID = ConcatNamed(shapefiles)[i].id
            /\ \A k \in 1..Len(dataframe.rows) : dataframe.rows[k].geometry # None
            /\ Cardinality(identify_affgeoid_field(IdentifierColumns(shapefiles))) = 1

(***************************************************************************)
(* The order in which the calls of get_tables end (specification            *)
(* SpecOrder).  The field rank of a call records its place in that order.   *)
(***************************************************************************)
MaxOrderCalls == 3

\* the state after get_variables found every variable valid
InitOrder ==
    /\ q_years \in {{2012}, {2012, 2013}}
    /\ q_variables \in {{VarCode(<<"B">>, 1)}, {VarCode(<<"B">>, 1), VarCode(<<"S">>, 1)}}
    /\ for_geo \in {<<County>>, <<County, Us>>}
    /\ in_geo = <<State08>>
    /\ geometry = "None"
    /\ invalid_variables = [y \in q_years |-> <<>>]
    /\ Len(TableCalls) <= MaxOrderCalls
    /\ cache = [a \in {} |-> "absent"]
    /\ pc = "got_variables"
    /\ calls = <<>>
    /\ error = "None"
    /\ run_variables = {[tag |-> "variable", name |-> v, year |-> y, label |-> TRUE,
                         stub |-> FALSE] : v \in q_variables, y \in q_years}
    /\ tables = <<>>
    /\ gazetteer_files = <<>>
    /\ shapefiles = <<>>
    /\ dataframe = NoTable
    /\ warnings = {}
    /\ started = [k \in Kinds |-> 0]
    /\ completed = [k \in Kinds |-> 0]
    /\ IdleChunk

\* a call that has ended, its place in the order of completion recorded
Ranked(call) ==
    IF call.status \in {"done", "raised"}
    THEN [call EXCEPT !.rank = completed[call.kind] + 1]
    ELSE call

\* TableResponse with the order of completion recorded
TableResponseRanked ==
    /\ pc = "get_tables"
    /\ \E i \in 1..Len(calls), response \in Responses :
        /\ calls[i].status = "running"
        /\ Respond(i, Ranked(fetch_table(calls[i], response)))
    /\ UNCHANGED <<queryVars, chunkVars, utilVars, sessionVars, invalid_variables, cache, pc,
                   run_variables, tables, gazetteer_files, shapefiles, dataframe, warnings,
                   started>>

NextOrder ==
    \/ GetTablesStart
    \/ TableResponseRanked
    \/ GetTablesReturn
    \/ GatherRaise
    \/ AssembleDataframe

SpecOrder == InitOrder /\ [][NextOrder]_vars

\* the table a call of fetch_table returns
TableOfCall(call) ==
    Table(call.year, call.for_geo.type, call.variables,
          Map(LAMBDA v : Raw(SomeEstimate), call.variables))

\* C29: the table run returns does not depend on the order in which the
\* concurrent calls of a phase end: when get_tables returns, the i-th table
\* is that of the i-th call, and the table that run returns is the one
\* assembled from the tables of the calls in call order, the same rows in
\* the same order
C29_CompletionOrderIrrelevant ==
    /\ [][(pc = "get_tables" /\ pc' = "got_tables") =>
            /\ Len(tables') = Len(calls)
            /\ \A i \in 1..Len(calls) : tables'[i] = TableOfCall(calls[i])]_vars
    /\ [](pc = "done" =>
            dataframe = assemble_dataframe(run_variables, Map(TableOfCall, TableCalls),
                                           <<>>, <<>>))

\* the gather of get_tables has ended and a later call ended before an
\* earlier one
C29_Witness ==
    /\ pc = "get_tables"
    /\ Gathered
    /\ \E i, j \in 1..Len(calls) : i < j /\ calls[j].rank < calls[i].rank

(***************************************************************************)
(* get_variables called again and again on one Query (specification          *)
(* SpecVariables): by a second run, or directly.  _invalid_variables is set *)
(* in __init__ and kept by the object.                                       *)
(***************************************************************************)
MaxGetVariables == 2

\* the geographies and the geometry play no part in get_variables
InitVariables ==
    /\ Init
    /\ geometry = "None"
    /\ for_geo = <<County>>
    /\ in_geo = <<State08>>

\* get_variables has returned or raised, and is called once more
GetVariablesAgain ==
    /\ pc \in {"got_variables", "raised"}
    /\ sessions_opened < MaxGetVariables
    /\ pc' = "start"
    /\ error' = "None"
    /\ calls' = <<>>
    /\ run_variables' = {}
    /\ UNCHANGED <<queryVars, chunkVars, utilVars, sessionVars, invalid_variables, cache,
                   tables, gazetteer_files, shapefiles, dataframe, warnings, started,
                   completed>>

NextVariables ==
    \/ GetVariablesStart
    \/ VariableResponse
    \/ GetVariablesReturn
    \/ GatherRaise
    \/ GetVariablesAgain

SpecVariables == InitVariables /\ [][NextVariables]_vars

\* s is the beginning of t
IsPrefix(s, t) == Len(s) <= Len(t) /\ SubSeq(t, 1, Len(s)) = s

\* C30: the record of the invalid variables of a year only grows and holds
\* no variable twice: after any number of calls of get_variables on one
\* Query every year lists an invalid variable once, no step removes an
\* entry, and no call asks for a variable in a year for which it is
\* recorded invalid
C30_InvalidVariablesGrow ==
    /\ [](\A y \in q_years :
            /\ Unique(invalid_variables[y]) = invalid_variables[y]
            /\ \A i \in 1..Len(calls) :
                    (calls[i].kind = "fetch_variable" /\ calls[i].year = y) =>
                        calls[i].variables[1] \notin Range(invalid_variables[y]))
    /\ [][\A y \in q_years : IsPrefix(invalid_variables[y], invalid_variables'[y])]_vars

\* the second call of get_variables has returned and found a variable
\* invalid for a year that had one recorded by the first call
C30_Witness ==
    /\ pc = "got_variables"
    /\ sessions_opened = 2
    /\ completed["fetch_variable"] >= 3
    /\ \E y \in q_years : Len(invalid_variables[y]) >= 2

====
